---- MODULE Spec2Model ----
(***************************************************************************)
(* Model of the deduplication and matching engine of the Discovery media   *)
(* catalog: title normalisation, title/creator matching, the import        *)
(* reconciler, manual add and the wishlist pruner, over a DuckDB-like      *)
(* store of items, source links, ratings and wishlist entries.             *)
(*                                                                         *)
(* Text is a sequence of one-character strings, so that the character-     *)
(* level work of normalize_title, strip_sequel_numbers and the rapidfuzz   *)
(* scores is computed, not assumed.  Python's None is the value None.      *)
(***************************************************************************)
EXTENDS Integers, Sequences, FiniteSets, TLC

\* ------------------------------------------------------------------------
\* Characters and elementary string operations (Python str / re semantics)
\* ------------------------------------------------------------------------

None == <<"NONE">>

UpperChars == <<"A","B","C","D","E","F","G","H","I","J","K","L","M",
                "N","O","P","Q","R","S","T","U","V","W","X","Y","Z">>
LowerChars == <<"a","b","c","d","e","f","g","h","i","j","k","l","m",
                "n","o","p","q","r","s","t","u","v","w","x","y","z">>
DigitChars == <<"0","1","2","3","4","5","6","7","8","9">>

\* Characters in ASCII order; CharOrd is the order sorted() uses.
AsciiChars == <<" ", "!", "(", ")", ",", "-", ".">> \o DigitChars \o <<":">>
              \o UpperChars \o <<"_">> \o LowerChars

CharOrd(c) == CHOOSE i \in 1..Len(AsciiChars) : AsciiChars[i] = c

InSeq(c, s) == \E i \in 1..Len(s) : s[i] = c

IsSpace(c) == c = " "
IsDigit(c) == InSeq(c, DigitChars)
IsWordChar(c) == InSeq(c, LowerChars) \/ InSeq(c, UpperChars) \/ IsDigit(c) \/ c = "_"
IsRoman(c) == c \in {"i", "v", "x", "l", "c", "d", "m", "I", "V", "X", "L", "C", "D", "M"}

LowerChar(c) ==
    IF InSeq(c, UpperChars)
    THEN LowerChars[CHOOSE i \in 1..26 : UpperChars[i] = c]
    ELSE c

\* str.lower()
Lower(s) == [i \in 1..Len(s) |-> LowerChar(s[i])]

Min(a, b) == IF a <= b THEN a ELSE b
Max(a, b) == IF a >= b THEN a ELSE b

\* s[i:] and s[:n] (1-based first index kept / number of characters kept)
From(s, i) == IF i > Len(s) THEN <<>> ELSE SubSeq(s, i, Len(s))
Prefix(s, n) == IF n <= 0 THEN <<>> ELSE SubSeq(s, 1, Min(n, Len(s)))

\* s.startswith(p)
StartsWith(s, p) == Len(p) <= Len(s) /\ SubSeq(s, 1, Len(p)) = p

\* p occurs in s at position i
OccursAt(s, p, i) == i >= 1 /\ i + Len(p) - 1 <= Len(s) /\ SubSeq(s, i, i + Len(p) - 1) = p

\* Python's "p in s"
Contains(s, p) == \E i \in 1..(Len(s) + 1) : OccursAt(s, p, i)

AllSpace(s, i, j) == \A k \in i..j : IsSpace(s[k])

\* str.strip()
Strip(s) ==
    IF \A k \in 1..Len(s) : IsSpace(s[k]) THEN <<>>
    ELSE LET a == CHOOSE i \in 1..Len(s) : ~IsSpace(s[i]) /\ AllSpace(s, 1, i - 1)
             b == CHOOSE j \in 1..Len(s) : ~IsSpace(s[j]) /\ AllSpace(s, j + 1, Len(s))
         IN SubSeq(s, a, b)

\* re.sub(r"[^\w\s]", "", s)
RECURSIVE RemovePunct(_)
RemovePunct(s) ==
    IF s = <<>> THEN <<>>
    ELSE IF IsWordChar(Head(s)) \/ IsSpace(Head(s))
         THEN <<Head(s)>> \o RemovePunct(Tail(s))
         ELSE RemovePunct(Tail(s))

\* re.sub(r"\s+", " ", s)
RECURSIVE CollapseSpace(_)
CollapseSpace(s) ==
    IF s = <<>> THEN <<>>
    ELSE IF IsSpace(Head(s))
         THEN IF Len(s) >= 2 /\ IsSpace(s[2])
              THEN CollapseSpace(Tail(s))
              ELSE <<" ">> \o CollapseSpace(Tail(s))
         ELSE <<Head(s)>> \o CollapseSpace(Tail(s))

\* the tokens of a text t that has no leading or trailing whitespace
RECURSIVE SplitStripped(_)
SplitStripped(t) ==
    IF t = <<>> THEN <<>>
    ELSE IF \E k \in 1..Len(t) : IsSpace(t[k])
         THEN LET k == CHOOSE k \in 1..Len(t) : IsSpace(t[k]) /\ \A m \in 1..(k - 1) : ~IsSpace(t[m])
              IN <<SubSeq(t, 1, k - 1)>> \o SplitStripped(Strip(From(t, k + 1)))
         ELSE <<t>>

\* str.split(): the whitespace-delimited tokens, in order
Split(s) == SplitStripped(Strip(s))

\* ------------------------------------------------------------------------
\* Title normalizer (discovery/utils.py)
\* ------------------------------------------------------------------------

Txt_the == <<"t","h","e"," ">>
Txt_a == <<"a"," ">>
Txt_an == <<"a","n"," ">>

\* the tuple the prefix loop of normalize_title walks, in its order
ArticlePrefixes == <<Txt_the, Txt_a, Txt_an>>

EditionKeywords == { <<"e","d","i","t","i","o","n">>,
                     <<"r","e","m","a","s","t","e","r">>,
                     <<"d","e","l","u","x","e">>,
                     <<"v","e","r","s","i","o","n">>,
                     <<"e","x","p","a","n","d","e","d">> }

Txt_remastered == <<"(","r","e","m","a","s","t","e","r","e","d",")">>
Txt_deluxe == <<"(","d","e","l","u","x","e",")">>

\* for prefix in (...): if normalized.startswith(prefix): normalized = normalized[len(prefix):]
RECURSIVE StripPrefixes(_, _)
StripPrefixes(s, prefixes) ==
    IF prefixes = <<>> THEN s
    ELSE IF StartsWith(s, Head(prefixes))
         THEN StripPrefixes(From(s, Len(Head(prefixes)) + 1), Tail(prefixes))
         ELSE StripPrefixes(s, Tail(prefixes))

\* a match of  \s*\(.*?(edition|remaster|deluxe|version|expanded).*?\)\s*$  starts at i
ParenEditionAt(s, i) ==
    \E j \in i..Len(s) :
        /\ AllSpace(s, i, j - 1)
        /\ s[j] = "("
        /\ \E kw \in EditionKeywords : \E k \in (j + 1)..Len(s) :
              /\ OccursAt(Lower(s), kw, k)
              /\ \E p \in (k + Len(kw))..Len(s) : s[p] = ")" /\ AllSpace(s, p + 1, Len(s))

\* a match of  \s*<ch>\s*.*?(edition|remaster|deluxe|version|expanded).*$  starts at i
SepEditionAt(s, i, ch) ==
    \E j \in i..Len(s) :
        /\ AllSpace(s, i, j - 1)
        /\ s[j] = ch
        /\ \E kw \in EditionKeywords : \E k \in (j + 1)..Len(s) : OccursAt(Lower(s), kw, k)

DashEditionAt(s, i) == SepEditionAt(s, i, "-")
ColonEditionAt(s, i) == SepEditionAt(s, i, ":")

\* a match of  \s+<word>\s*$  starts at i
WordSuffixAt(s, i, word) ==
    \E j \in (i + 1)..Len(s) :
        /\ AllSpace(s, i, j - 1)
        /\ OccursAt(Lower(s), word, j)
        /\ AllSpace(s, j + Len(word), Len(s))

RemasteredAt(s, i) == WordSuffixAt(s, i, Txt_remastered)
DeluxeAt(s, i) == WordSuffixAt(s, i, Txt_deluxe)

\* re.sub(pattern, "", s) for a pattern anchored at the end: the leftmost
\* match runs to the end of s, so the substitution cuts s there.
SubToEnd(s, MatchAt(_, _)) ==
    IF \E i \in 1..Len(s) : MatchAt(s, i)
    THEN Prefix(s, (CHOOSE i \in 1..Len(s) : MatchAt(s, i) /\ \A m \in 1..(i - 1) : ~MatchAt(s, m)) - 1)
    ELSE s

\* the five edition patterns, applied in order; each of them matches only a
\* text in which one of the keywords occurs
StripEditions(s) ==
    IF \A kw \in EditionKeywords : ~Contains(Lower(s), kw) THEN s
    ELSE
    SubToEnd(SubToEnd(SubToEnd(SubToEnd(SubToEnd(s, ParenEditionAt), DashEditionAt),
                               ColonEditionAt), RemasteredAt), DeluxeAt)

normalize_title(title, strip_editions) ==
    IF title = None \/ title = <<>> THEN <<>>
    ELSE LET lowered == Lower(title)
             noart == StripPrefixes(lowered, ArticlePrefixes)
             noed == IF strip_editions THEN StripEditions(noart) ELSE noart
         IN Strip(Strip(CollapseSpace(RemovePunct(noed))))

\* strip_sequel_numbers: re.sub(r"\s+[ivxlcdm]+$", ...) then re.sub(r"\s+\d+$", ...), then strip
TrailingTokenAt(s, i, IsTok(_)) ==
    \E j \in (i + 1)..Len(s) :
        /\ AllSpace(s, i, j - 1)
        /\ \A k \in j..Len(s) : IsTok(s[k])

strip_sequel_numbers(title) ==
    LET RomanAt(s, i) == TrailingTokenAt(s, i, IsRoman)
        DigitsAt(s, i) == TrailingTokenAt(s, i, IsDigit)
    IN Strip(SubToEnd(SubToEnd(title, RomanAt), DigitsAt))

\* ------------------------------------------------------------------------
\* rapidfuzz scores, as the comparisons "score >= threshold" the code makes
\* ------------------------------------------------------------------------

\* length of a longest common subsequence (the Indel distance is
\* len(a) + len(b) - 2 * LCS)
\* one row of the dynamic-programming table: cur[j + 1] is the LCS length of
\* the prefix of a ending in ch and the first j characters of b
RECURSIVE LcsRow(_, _, _, _)
LcsRow(prev, ch, b, cur) ==
    IF Len(cur) = Len(b) + 1 THEN cur
    ELSE LET j == Len(cur)
         IN LcsRow(prev, ch, b,
                   Append(cur, IF ch = b[j] THEN prev[j] + 1 ELSE Max(prev[j + 1], cur[j])))

RECURSIVE LcsRows(_, _, _)
\* (each row is computed in full before the next one is started)
LcsRows(a, b, prev) ==
    IF a = <<>> THEN prev
    ELSE LET row == LcsRow(prev, Head(a), b, <<0>>)
         IN IF Len(row) = Len(b) + 1 THEN LcsRows(Tail(a), b, row) ELSE <<>>

LcsLen(a, b) == LcsRows(a, b, [j \in 1..(Len(b) + 1) |-> 0])[Len(b) + 1]

IndelDistance(a, b) == Len(a) + Len(b) - 2 * LcsLen(a, b)

\* norm_distance(dist, lensum) >= threshold, with
\* norm_distance = 100 - 100 * dist / lensum (100 when lensum = 0)
NormAtLeast(dist, lensum, threshold) ==
    IF lensum = 0 THEN 100 >= threshold
    ELSE 100 * lensum - 100 * dist >= threshold * lensum

\* fuzz.ratio(a, b) >= threshold
ratio_at_least(a, b, threshold) ==
    NormAtLeast(IndelDistance(a, b), Len(a) + Len(b), threshold)

RECURSIVE LexLess(_, _)
LexLess(a, b) ==
    IF a = <<>> THEN b # <<>>
    ELSE IF b = <<>> THEN FALSE
    ELSE IF Head(a) = Head(b) THEN LexLess(Tail(a), Tail(b))
    ELSE CharOrd(Head(a)) < CharOrd(Head(b))

\* " ".join(sorted(tokens))
RECURSIVE SortedJoin(_)
RECURSIVE JoinFrom(_, _)
SortedJoin(tokens) ==
    IF tokens = {} THEN <<>>
    ELSE JoinFrom(CHOOSE t \in tokens : \A u \in tokens \ {t} : LexLess(t, u), tokens)

\* the least token, then the others in order
JoinFrom(least, tokens) ==
    IF tokens \ {least} = {} THEN least ELSE least \o <<" ">> \o SortedJoin(tokens \ {least})

\* set(tokens)
SeqRange(toks) == { toks[i] : i \in 1..Len(toks) }
TokenSet(s) == SeqRange(Split(s))

\* the three scores of token_set_ratio, from the joined difference strings
\* and the length of the joined intersection
JoinedAtLeast(diff_ab_joined, diff_ba_joined, sect_len, threshold) ==
    LET ab_len == Len(diff_ab_joined)
        ba_len == Len(diff_ba_joined)
        sep == IF sect_len > 0 THEN 1 ELSE 0
    IN \/ NormAtLeast(IndelDistance(diff_ab_joined, diff_ba_joined),
                      (sect_len + sep + ab_len) + (sect_len + sep + ba_len), threshold)
       \/ /\ sect_len > 0
          /\ \/ NormAtLeast(sep + ab_len, sect_len + (sect_len + sep + ab_len), threshold)
             \/ NormAtLeast(sep + ba_len, sect_len + (sect_len + sep + ba_len), threshold)

TokenSetsAtLeast(tokens_a, tokens_b, threshold) ==
    IF tokens_a = {} \/ tokens_b = {} THEN 0 >= threshold
    ELSE IF tokens_a \cap tokens_b # {} /\ (tokens_a \ tokens_b = {} \/ tokens_b \ tokens_a = {}) THEN TRUE
    ELSE JoinedAtLeast(SortedJoin(tokens_a \ tokens_b), SortedJoin(tokens_b \ tokens_a),
                       Len(SortedJoin(tokens_a \cap tokens_b)), threshold)

\* fuzz.token_set_ratio(s1, s2) >= threshold; the score of an empty string is 0
token_set_ratio_at_least(s1, s2, threshold) ==
    IF s1 = <<>> \/ s2 = <<>> THEN 0 >= threshold
    ELSE TokenSetsAtLeast(TokenSet(s1), TokenSet(s2), threshold)

\* ------------------------------------------------------------------------
\* Title and creator matchers (discovery/utils.py)
\* ------------------------------------------------------------------------

\* default thresholds of the three matchers
TITLE_THRESHOLD == 85
STRICT_TITLE_THRESHOLD == 92
CREATOR_THRESHOLD == 80

\* Python truthiness of an optional string: None and "" are falsy
Falsy(s) == s = None \/ s = <<>>

\* stripped1 and stripped2 and stripped1 == stripped2
SequelEqual(stripped1, stripped2) ==
    stripped1 # <<>> /\ stripped2 # <<>> /\ stripped1 = stripped2

\* the substring step testing only "norm1 in norm2"
NormalizedTitlesMatch_SubstringOneWay(norm1, norm2, threshold) ==
    IF norm1 = norm2 THEN TRUE
    ELSE IF Contains(norm2, norm1) /\ Min(Len(norm1), Len(norm2)) >= 5 THEN TRUE
    ELSE IF SequelEqual(strip_sequel_numbers(norm1), strip_sequel_numbers(norm2)) THEN TRUE
    ELSE token_set_ratio_at_least(norm1, norm2, threshold)

\* the steps of titles_match and of titles_match_strict on the normalized titles
NormalizedTitlesMatch(norm1, norm2, threshold) ==
    IF norm1 = norm2 THEN TRUE
    ELSE IF (Contains(norm2, norm1) \/ Contains(norm1, norm2))
            /\ Min(Len(norm1), Len(norm2)) >= 5 THEN TRUE
    ELSE IF SequelEqual(strip_sequel_numbers(norm1), strip_sequel_numbers(norm2)) THEN TRUE
    ELSE token_set_ratio_at_least(norm1, norm2, threshold)

titles_match(title1, title2, threshold) ==
    IF Falsy(title1) \/ Falsy(title2) THEN FALSE
    ELSE NormalizedTitlesMatch(normalize_title(title1, TRUE), normalize_title(title2, TRUE), threshold)

\* titles_match_strict comparing the fuzzy score with the lenient default
titles_match_strict_LenientThreshold(title1, title2, threshold) ==
    IF Falsy(title1) \/ Falsy(title2) THEN FALSE
    ELSE NormalizedTitlesMatch(normalize_title(title1, TRUE), normalize_title(title2, TRUE), TITLE_THRESHOLD)

titles_match_strict(title1, title2, threshold) ==
    IF Falsy(title1) \/ Falsy(title2) THEN FALSE
    ELSE NormalizedTitlesMatch(normalize_title(title1, TRUE), normalize_title(title2, TRUE), threshold)

\* parts1 and parts2 and parts1[-1] == parts2[-1]
SameLastPart(parts1, parts2) ==
    parts1 # <<>> /\ parts2 # <<>> /\ parts1[Len(parts1)] = parts2[Len(parts2)]

\* the steps of creators_match on the lowercased, stripped creators
LoweredCreatorsMatch(c1, c2, threshold) ==
    IF c1 = c2 THEN TRUE
    ELSE IF Contains(c2, c1) \/ Contains(c1, c2) THEN TRUE
    ELSE IF SameLastPart(Split(c1), Split(c2)) THEN TRUE
    ELSE ratio_at_least(c1, c2, threshold)

\* creators_match taking a missing creator for a mismatch unless both are missing
creators_match_MissingIsMismatch(creator1, creator2, threshold) ==
    IF Falsy(creator1) \/ Falsy(creator2) THEN Falsy(creator1) /\ Falsy(creator2)
    ELSE LoweredCreatorsMatch(Strip(Lower(creator1)), Strip(Lower(creator2)), threshold)

creators_match(creator1, creator2, threshold) ==
    IF Falsy(creator1) \/ Falsy(creator2) THEN TRUE
    ELSE LoweredCreatorsMatch(Strip(Lower(creator1)), Strip(Lower(creator2)), threshold)

\* ------------------------------------------------------------------------
\* State
\* ------------------------------------------------------------------------

VARIABLES
    items,           \* table items: id -> [category, title, creator, metadata, created_at]
    item_sources,    \* table item_sources: rows [item_id, source, source_id, source_loved]
    ratings,         \* table ratings: item_id -> [loved, rating]
    wishlist_items,  \* table wishlist_items: rows [id, category, title, creator]
    bulk,            \* per category, the number of further items of a large library whose
                     \* texts share nothing with the texts below (no search returns them,
                     \* no matcher accepts them); they count in get_items_by_category
    clock,           \* number of Item / WishlistItem objects constructed so far: the source
                     \* of fresh uuid4 ids and of datetime.now() creation times
    last,            \* the last command or call and the value it returned
    fn,              \* argument and result of the last pure-function call
    backup_dir       \* the files discovery_<timestamp>_<reason>.db of the backup directory:
                     \* [timestamp, reason, content], content a copy of the database file

vars == <<items, item_sources, ratings, wishlist_items, bulk, clock, last, fn, backup_dir>>
store == <<items, item_sources, ratings, wishlist_items, bulk>>

Categories == {"book", "movie", "tv", "game"}
\* the argument category=None of the store queries
AnyCategory == "any"

\* BaseImporter subclasses: class attributes source and category
Importers == {"goodreads", "netflix"}
ImporterCategory(imp) == IF imp = "goodreads" THEN "book" ELSE "movie"

MAX_BACKUPS == 10
FALLBACK_SCAN_CEILING == 5000
TITLE_PREFIX_LEN == 20
MIN_SIMILAR_LEN == 3

\* ------------------------------------------------------------------------
\* Database (discovery/db.py)
\* ------------------------------------------------------------------------

\* "text ILIKE %query%": case-insensitive containment; NULL never matches.
\* (No text of the model holds the LIKE wildcards % and _.)
ILike(text, query) == text # None /\ Contains(Lower(text), Lower(query))

\* Database.search_items(query, category): ids of the rows returned
search_items(its, query, category) ==
    { i \in DOMAIN its : /\ ILike(its[i].title, query) \/ ILike(its[i].creator, query)
                         /\ category = AnyCategory \/ its[i].category = category }

\* Database.get_items_by_category(category): the explicit rows, and the row count
get_items_by_category(its, category) == { i \in DOMAIN its : its[i].category = category }
CategoryCount(its, blk, category) == Cardinality(get_items_by_category(its, category)) + blk[category]

\* Database.find_item_by_source: the rows the join yields (fetchone takes one of them)
find_item_by_source(its, links, source, source_id) ==
    { l.item_id : l \in { k \in links : k.source = source /\ k.source_id = source_id /\ k.item_id \in DOMAIN its } }

\* upsert_item with creator missing from the DO UPDATE SET list
upsert_item_KeepsCreator(its, id, item) ==
    IF id \in DOMAIN its
    THEN [its EXCEPT ![id] = [@ EXCEPT !.title = item.title, !.metadata = item.metadata]]
    ELSE [i \in DOMAIN its \cup {id} |-> IF i = id THEN item ELSE its[i]]

\* Database.upsert_item: ON CONFLICT (id) updates title, creator, metadata only
upsert_item(its, id, item) ==
    IF id \in DOMAIN its
    THEN [its EXCEPT ![id] = [@ EXCEPT !.title = item.title, !.creator = item.creator,
                                       !.metadata = item.metadata]]
    ELSE [i \in DOMAIN its \cup {id} |-> IF i = id THEN item ELSE its[i]]

\* Database.upsert_item_source: ON CONFLICT (item_id, source) updates source_loved
\* (and source_data, last_synced), never source_id
upsert_item_source(links, link) ==
    IF \E k \in links : k.item_id = link.item_id /\ k.source = link.source
    THEN { IF k.item_id = link.item_id /\ k.source = link.source
           THEN [k EXCEPT !.source_loved = link.source_loved]
           ELSE k : k \in links }
    ELSE links \cup {link}

\* Database.upsert_rating: ON CONFLICT (item_id) overwrites the row
upsert_rating(rts, item_id, rating) ==
    [i \in DOMAIN rts \cup {item_id} |-> IF i = item_id THEN rating ELSE rts[i]]

\* rows of get_wishlist_items(category); category None (AnyCategory) selects every row
get_wishlist_items(wl, category) == { w \in wl : category = AnyCategory \/ w.category = category }

\* the database file: what shutil.copy2 copies into and out of a backup
Content(its, links, rts, wl, blk) ==
    [items |-> its, item_sources |-> links, ratings |-> rts, wishlist_items |-> wl, bulk |-> blk]

\* datetime.now() of a new backup: later than the timestamp of every file
NextTimestamp(dir) ==
    IF dir = {} THEN 1 ELSE 1 + (CHOOSE t \in { f.timestamp : f \in dir } : \A f \in dir : f.timestamp <= t)

\* the files of dir with at least n newer files: backups[n:] of the list
\* sorted by timestamp, newest first
OlderThanNewest(dir, n) ==
    { f \in dir : Cardinality({ g \in dir : g.timestamp > f.timestamp }) >= n }

\* _cleanup_old_backups sorting oldest first (reverse=False)
_cleanup_old_backups_KeepsOldest(dir) ==
    { f \in dir : Cardinality({ g \in dir : g.timestamp < f.timestamp }) < MAX_BACKUPS }

\* Database._cleanup_old_backups(backup_dir): unlink backups[MAX_BACKUPS:]
_cleanup_old_backups(dir) == dir \ OlderThanNewest(dir, MAX_BACKUPS)

\* Database.create_backup(reason): copy the database file, then clean up.
\* The database file exists once Database() has run.
create_backup(dir, reason, content) ==
    _cleanup_old_backups(dir \cup {[timestamp |-> NextTimestamp(dir), reason |-> reason, content |-> content]})

\* Database.list_backups(): the files, newest first
list_backups(dir) ==
    [k \in 1..Cardinality(dir) |->
        CHOOSE f \in dir : Cardinality({ g \in dir : g.timestamp > f.timestamp }) = k - 1]

\* the end of restore_backup, dir being the directory after
\* create_backup("pre_restore"): shutil.copy2(backup_path, db_path) raises
\* FileNotFoundError, before it opens the database file, when the file is gone
Restored(dir, content, p) ==
    IF p \notin dir THEN [status |-> "raised", dir |-> dir, content |-> content]
    ELSE [status |-> "restored", dir |-> dir, content |-> p.content]

\* Database.restore_backup(backup_path): status "failed" is the return value
\* False, "restored" the return value True
restore_backup(dir, content, p) ==
    IF p \notin dir THEN [status |-> "failed", dir |-> dir, content |-> content]
    ELSE Restored(create_backup(dir, <<"p","r","e","_","r","e","s","t","o","r","e">>, content), content, p)

\* ------------------------------------------------------------------------
\* Import reconciler (discovery/importers/base.py)
\* ------------------------------------------------------------------------

\* the strict check with the creator threshold 90 for numbered sequels too
_is_strict_title_match_RelaxedSequel(candidate, target) ==
    IF Falsy(candidate.title) \/ Falsy(target.title) THEN FALSE
    ELSE IF ~titles_match_strict(candidate.title, target.title, STRICT_TITLE_THRESHOLD) THEN FALSE
    ELSE creators_match(candidate.creator, target.creator, 90)

\* BaseImporter._is_strict_title_match(candidate, target)
_is_strict_title_match(candidate, target) ==
    IF Falsy(candidate.title) \/ Falsy(target.title) THEN FALSE
    ELSE IF ~titles_match_strict(candidate.title, target.title, STRICT_TITLE_THRESHOLD) THEN FALSE
    ELSE creators_match(candidate.creator, target.creator,
                        IF strip_sequel_numbers(normalize_title(candidate.title, TRUE))
                           = strip_sequel_numbers(normalize_title(target.title, TRUE))
                        THEN 100 ELSE 90)

\* the result of _find_duplicate from what its three passes accept: hits is
\* the set of items the call can return (the first acceptable row in the order
\* the store yields the rows; {} is None), via the pass that found it, scanned
\* whether the fallback loop ran
FirstPass(pass1, pass2, scan, pass3) ==
    IF pass1 # {} THEN [hits |-> pass1, via |-> "search", scanned |-> FALSE]
    ELSE IF pass2 # {} THEN [hits |-> pass2, via |-> "prefix", scanned |-> FALSE]
    ELSE IF scan THEN [hits |-> pass3, via |-> "scan", scanned |-> TRUE]
    ELSE [hits |-> {}, via |-> "none", scanned |-> FALSE]

\* the fallback condition testing len(candidates) < 5000
ScanAllowed_CeilingExclusive(matches, all_matches, count) ==
    matches = {} /\ all_matches = {} /\ count < FALLBACK_SCAN_CEILING

\* the fallback entered whenever no row was accepted, whatever the searches returned
ScanAllowed_IgnoresRawResults(matches, all_matches, count) ==
    count <= FALLBACK_SCAN_CEILING

\* if not matches and not all_matches: ... if len(candidates) <= 5000
ScanAllowed(matches, all_matches, count) ==
    matches = {} /\ all_matches = {} /\ count <= FALLBACK_SCAN_CEILING

\* the second loop applying titles_match, as the first loop does
DuplicateAmong_LenientSecondPass(its, blk, item, matches, all_matches, normalized_title) ==
    FirstPass({ m \in matches : /\ titles_match(its[m].title, item.title, TITLE_THRESHOLD)
                                /\ creators_match(its[m].creator, item.creator, CREATOR_THRESHOLD) },
              { m \in all_matches : /\ titles_match(its[m].title, item.title, TITLE_THRESHOLD)
                                    /\ creators_match(its[m].creator, item.creator, CREATOR_THRESHOLD) },
              ScanAllowed(matches, all_matches, CategoryCount(its, blk, item.category)),
              { m \in get_items_by_category(its, item.category) : _is_strict_title_match(its[m], item) })

\* the three loops of _find_duplicate over the rows of the two searches
DuplicateAmong(its, blk, item, matches, all_matches, normalized_title) ==
    FirstPass({ m \in matches : /\ titles_match(its[m].title, item.title, TITLE_THRESHOLD)
                                /\ creators_match(its[m].creator, item.creator, CREATOR_THRESHOLD) },
              { m \in all_matches : /\ normalize_title(its[m].title, TRUE) = normalized_title
                                    /\ creators_match(its[m].creator, item.creator, CREATOR_THRESHOLD) },
              ScanAllowed(matches, all_matches, CategoryCount(its, blk, item.category)),
              { m \in get_items_by_category(its, item.category) : _is_strict_title_match(its[m], item) })

\* BaseImporter._find_duplicate(item)
_find_duplicate(its, blk, item) ==
    DuplicateAmong(its, blk, item,
                   search_items(its, item.title, item.category),
                   search_items(its, Prefix(item.title, TITLE_PREFIX_LEN), item.category),
                   normalize_title(item.title, TRUE))

\* Points of one candidate's processing at which a store call can raise
FaultPoints == {"none", "find", "item", "link", "post"}

\* the Item a parser built for candidate c, created at time t
ItemOf(c, t) ==
    [category |-> c.category, title |-> c.title, creator |-> c.creator,
     metadata |-> c.metadata, created_at |-> t]

LinkOf(c, imp, item_id) ==
    [item_id |-> item_id, source |-> imp, source_id |-> c.source_id, source_loved |-> c.source_loved]

\* what the loop body did with one candidate
Outcome(kind, via, item_id, scanned, raised) ==
    [kind |-> kind, via |-> via, item_id |-> item_id, scanned |-> scanned, raised |-> raised]

\* except Exception as e: errors.append(f"Failed to import '{item.title}': {e}")
Raised(st, c, kind, via, item_id, scanned) ==
    [st EXCEPT !.errors = Append(@, c.title),
               !.outcomes = Append(@, Outcome(kind, via, item_id, scanned, TRUE))]

\* tri-state loved / source_loved: "loved", "disliked", "unknown" (None);
\* a rating is 1..5, NoRating is None
NoRating == 0

\* NetflixImporter._rating_to_loved
_rating_to_loved(rating) ==
    IF rating = NoRating THEN "unknown" ELSE IF rating >= 4 THEN "loved" ELSE "disliked"

\* NetflixImporter._upsert_rating(item_source): a Rating for item_source.item_id
\* when the row carried a rating; the ratings table has a foreign key to items
_upsert_rating(its, rts, item_id, c) ==
    IF c.source_rating = NoRating THEN [ok |-> TRUE, ratings |-> rts]
    ELSE IF item_id \notin DOMAIN its THEN [ok |-> FALSE, ratings |-> rts]
    ELSE [ok |-> TRUE,
          ratings |-> upsert_rating(rts, item_id, [loved |-> _rating_to_loved(c.source_rating),
                                                   rating |-> c.source_rating])]

\* BaseImporter.post_import_item (a hook that does nothing) or, in
\* NetflixImporter.import_from_file, self._upsert_rating(item_source)
PostImportItem(imp, its, rts, item_id, c) ==
    IF imp = "netflix" THEN _upsert_rating(its, rts, item_id, c)
    ELSE [ok |-> TRUE, ratings |-> rts]

\* the end of the loop body, after the writes of one branch: the counter has
\* been incremented, then the post-import step runs inside the same try
Finished(counted, post, c, fault, kind, via, item_id, scanned) ==
    IF fault = "post" \/ ~post.ok
    THEN Raised(counted, c, kind, via, item_id, scanned)
    ELSE [counted EXCEPT !.ratings = post.ratings,
                         !.outcomes = Append(@, Outcome(kind, via, item_id, scanned, FALSE))]

Finish(st, c, imp, fault, kind, via, item_id, scanned) ==
    Finished(IF kind = "ADDED" THEN [st EXCEPT !.added = @ + 1] ELSE [st EXCEPT !.updated = @ + 1],
             PostImportItem(imp, st.items, st.ratings, item_id, c),
             c, fault, kind, via, item_id, scanned)

\* branch "if existing": the candidate takes the existing item's id and
\* creation time; upsert_item, upsert_item_source, items_updated += 1
Updated(st, written, c, imp, fault, existing) ==
    IF fault = "item" THEN Raised(st, c, "NONE", "source", existing, FALSE)
    ELSE IF fault = "link" THEN Raised(written, c, "NONE", "source", existing, FALSE)
    ELSE Finish([written EXCEPT !.links = upsert_item_source(@, LinkOf(c, imp, existing))],
                c, imp, fault, "UPDATED", "source", existing, FALSE)

UpdateExisting(st, c, imp, fault, existing) ==
    Updated(st, [st EXCEPT !.items = upsert_item(@, existing, ItemOf(c, st.items[existing].created_at))],
            c, imp, fault, existing)

\* the duplicate branch also writing the candidate's fields over the matched item
LinkDuplicate_OverwritesItem(st, c, imp, fault, dup, via) ==
    IF fault = "link" THEN Raised(st, c, "NONE", via, dup, via = "scan")
    ELSE Finish([st EXCEPT !.items = upsert_item(@, dup, ItemOf(c, st.items[dup].created_at)),
                           !.links = upsert_item_source(@, LinkOf(c, imp, dup))],
                c, imp, fault, "UPDATED", via, dup, via = "scan")

\* the duplicate branch also giving the matched item the candidate's title
LinkDuplicate_RenamesItem(st, c, imp, fault, dup, via) ==
    IF fault = "link" THEN Raised(st, c, "NONE", via, dup, via = "scan")
    ELSE Finish([st EXCEPT !.items = [@ EXCEPT ![dup].title = c.title],
                           !.links = upsert_item_source(@, LinkOf(c, imp, dup))],
                c, imp, fault, "UPDATED", via, dup, via = "scan")

\* branch "if dedup_item": upsert_item_source on the matched item, items_updated += 1
LinkDuplicate(st, c, imp, fault, dup, via) ==
    IF fault = "link" THEN Raised(st, c, "NONE", via, dup, via = "scan")
    ELSE Finish([st EXCEPT !.links = upsert_item_source(@, LinkOf(c, imp, dup))],
                c, imp, fault, "UPDATED", via, dup, via = "scan")

\* branch "else": upsert_item, upsert_item_source, items_added += 1
Added(st, written, c, imp, fault, id, scanned) ==
    IF fault = "item" THEN Raised(st, c, "NONE", "new", id, scanned)
    ELSE IF fault = "link" THEN Raised(written, c, "NONE", "new", id, scanned)
    ELSE Finish([written EXCEPT !.links = upsert_item_source(@, LinkOf(c, imp, id))],
                c, imp, fault, "ADDED", "new", id, scanned)

AddNew(st, c, imp, fault, id, scanned) ==
    Added(st, [st EXCEPT !.items = upsert_item(@, id, ItemOf(c, id))], c, imp, fault, id, scanned)

\* the loop body with the post-import step of the duplicate branch keyed by
\* the candidate's own id, which that branch discards
Resolve_RatesCandidateId(st, c, imp, fault, id, found, dup) ==
    IF fault = "find" THEN { Raised(st, c, "NONE", "none", 0, FALSE) }
    ELSE IF found # {} THEN { UpdateExisting(st, c, imp, fault, e) : e \in found }
    ELSE IF dup.hits # {}
         THEN { IF fault = "link" THEN Raised(st, c, "NONE", dup.via, d, dup.via = "scan")
                ELSE Finished([st EXCEPT !.links = upsert_item_source(@, LinkOf(c, imp, d)),
                                         !.updated = @ + 1],
                              PostImportItem(imp, st.items, st.ratings, id, c),
                              c, fault, "UPDATED", dup.via, d, dup.via = "scan") : d \in dup.hits }
    ELSE { AddNew(st, c, imp, fault, id, dup.scanned) }

\* one iteration of the loop of import_from_file: the states it can end in.
\* id is the uuid4 (and creation time) the parser gave the candidate.
Resolve(st, c, imp, fault, id, found, dup) ==
    IF fault = "find" THEN { Raised(st, c, "NONE", "none", 0, FALSE) }
    ELSE IF found # {} THEN { UpdateExisting(st, c, imp, fault, e) : e \in found }
    ELSE IF dup.hits # {} THEN { LinkDuplicate(st, c, imp, fault, d, dup.via) : d \in dup.hits }
    ELSE { AddNew(st, c, imp, fault, id, dup.scanned) }

ProcessCandidate(st, c, imp, fault, id, blk) ==
    Resolve(st, c, imp, fault, id,
            find_item_by_source(st.items, st.links, imp, c.source_id),
            _find_duplicate(st.items, blk, ItemOf(c, id)))

\* the loop without its try/except: the first exception ends the loop
RECURSIVE ProcessFrom_Aborts(_, _, _, _, _, _, _)
ProcessFrom_Aborts(sts, parsed, faults, imp, base, blk, k) ==
    IF k > Len(parsed) THEN sts
    ELSE LET step == UNION { ProcessCandidate(st, parsed[k], imp, faults[k], base + k, blk) : st \in sts }
         IN IF \E st \in step : st.outcomes[k].raised THEN step
            ELSE ProcessFrom_Aborts(step, parsed, faults, imp, base, blk, k + 1)

\* the loop "for item, item_source in parsed", from candidate k on
RECURSIVE ProcessFrom(_, _, _, _, _, _, _)
ProcessFrom(sts, parsed, faults, imp, base, blk, k) ==
    IF k > Len(parsed) THEN sts
    ELSE ProcessFrom(UNION { ProcessCandidate(st, parsed[k], imp, faults[k], base + k, blk) : st \in sts },
                     parsed, faults, imp, base, blk, k + 1)

\* import_from_file whose parse failure returns an empty result with no error
import_from_file_SilentParseFailure(its, links, rts, blk, now, imp, parsed, faults, parse_ok) ==
    LET start == [items |-> its, links |-> links, ratings |-> rts,
                  added |-> 0, updated |-> 0, errors |-> <<>>, outcomes |-> <<>>]
    IN IF ~parse_ok THEN { start }
       ELSE ProcessFrom({start}, parsed, faults, imp, now, blk, 1)

\* BaseImporter.import_from_file / NetflixImporter.import_from_file: the final
\* states of the call.  parse_ok = FALSE is parse_file raising.
import_from_file(its, links, rts, blk, now, imp, parsed, faults, parse_ok) ==
    LET start == [items |-> its, links |-> links, ratings |-> rts,
                  added |-> 0, updated |-> 0, errors |-> <<>>, outcomes |-> <<>>]
    IN IF ~parse_ok
       THEN { [start EXCEPT !.errors = <<<<"F","a","i","l","e","d"," ","t","o"," ","p","a","r","s","e">>>>] }
       ELSE ProcessFrom({start}, parsed, faults, imp, now, blk, 1)

\* ------------------------------------------------------------------------
\* Steam API import (discovery/importers/steam.py)
\* ------------------------------------------------------------------------

\* FOREIGN KEY (item_id) REFERENCES items(id): the insert of a link whose
\* item_id names no item raises
ViolatesForeignKey(its, link) == link.item_id \notin DOMAIN its

\* branch "if existing" of import_from_api: item.id = existing.id, upsert_item,
\* then upsert_item_source(item_source) with the item_id create_item_pair gave
\* the pair (item_source.item_id is not assigned in this branch)
ApiUpdateExisting(st, c, id, existing) ==
    LET written == [st EXCEPT !.items = upsert_item(@, existing, ItemOf(c, st.items[existing].created_at))]
    IN IF ViolatesForeignKey(written.items, LinkOf(c, "steam", id))
       THEN Raised(written, c, "NONE", "source", existing, FALSE)
       ELSE [written EXCEPT !.links = upsert_item_source(@, LinkOf(c, "steam", id)),
                            !.updated = @ + 1,
                            !.outcomes = Append(@, Outcome("UPDATED", "source", existing, FALSE, FALSE))]

\* branch "else" of import_from_api: upsert_item, item_source.item_id = item.id,
\* upsert_item_source
ApiAddNew(st, c, id) ==
    [st EXCEPT !.items = upsert_item(@, id, ItemOf(c, id)),
               !.links = upsert_item_source(@, LinkOf(c, "steam", id)),
               !.added = @ + 1,
               !.outcomes = Append(@, Outcome("ADDED", "new", id, FALSE, FALSE))]

\* one iteration of the loop of import_from_api
ApiResolved(st, c, id, found) ==
    IF found # {} THEN { ApiUpdateExisting(st, c, id, e) : e \in found }
    ELSE { ApiAddNew(st, c, id) }

\* the loop "for item, item_source in self._parse_games(games)", from game k on
RECURSIVE ApiProcessFrom(_, _, _, _)
ApiProcessFrom(sts, games, base, k) ==
    IF k > Len(games) THEN sts
    ELSE ApiProcessFrom(UNION { ApiResolved(st, games[k], base + k,
                                            find_item_by_source(st.items, st.links, "steam", games[k].source_id))
                                : st \in sts },
                        games, base, k + 1)

\* SteamImporter.import_from_api: the final states of the call.  configured is
\* "api_key and steam_id are set", http_ok = FALSE is httpx raising HTTPError.
import_from_api(its, links, rts, now, configured, http_ok, games) ==
    LET start == [items |-> its, links |-> links, ratings |-> rts,
                  added |-> 0, updated |-> 0, errors |-> <<>>, outcomes |-> <<>>]
    IN IF ~configured
       THEN { [start EXCEPT !.errors = <<<<"A","P","I"," ","k","e","y"," ","r","e","q","u","i","r","e","d">>>>] }
       ELSE IF ~http_ok
       THEN { [start EXCEPT !.errors = <<<<"S","t","e","a","m"," ","A","P","I"," ","e","r","r","o","r">>>>] }
       ELSE ApiProcessFrom({start}, games, now, 1)

\* ------------------------------------------------------------------------
\* Wishlist pruner (discovery/cli/wishlist.py)
\* ------------------------------------------------------------------------

\* find_wishlist_matches accepting only a title equal to the entry's, case aside
find_wishlist_matches_ExactTitle(its, w) ==
    { m \in search_items(its, w.title, w.category) :
        /\ Lower(its[m].title) = Lower(w.title)
        /\ creators_match(its[m].creator, w.creator, CREATOR_THRESHOLD) }

\* find_wishlist_matches comparing titles only
find_wishlist_matches_IgnoresCreator(its, w) ==
    { m \in search_items(its, w.title, w.category) :
        titles_match(its[m].title, w.title, TITLE_THRESHOLD) }

\* find_wishlist_matches(db, wishlist_item): the items the call can return
find_wishlist_matches(its, w) ==
    { m \in search_items(its, w.title, w.category) :
        /\ titles_match(its[m].title, w.title, TITLE_THRESHOLD)
        /\ creators_match(its[m].creator, w.creator, CREATOR_THRESHOLD) }

\* prune_wishlist(db, category): the removed rows (the returned list)
prune_wishlist(its, wl, category) ==
    { w \in get_wishlist_items(wl, category) : find_wishlist_matches(its, w) # {} }

\* ------------------------------------------------------------------------
\* Manual add (discovery/cli/core.py, discovery/cli_items.py)
\* ------------------------------------------------------------------------

\* str(uuid.uuid4()) of the id-th object, as a text
UuidText(id) == <<"u", DigitChars[id + 1]>>

\* the exact-match loop comparing titles and creators without lowercasing them
ExactExists_CaseSensitive(its, title, creator, cat) ==
    \E i \in search_items(its, title, cat) :
        /\ its[i].title = title
        /\ \/ ~Falsy(creator) /\ ~Falsy(its[i].creator) /\ its[i].creator = creator
           \/ Falsy(creator)

\* the exact-match loop of add: some row of search_items(title, cat) has the
\* same lowercased title and, if a creator was given, the same lowercased creator
ExactExists(its, title, creator, cat) ==
    \E i \in search_items(its, title, cat) :
        /\ Lower(its[i].title) = Lower(title)
        /\ \/ ~Falsy(creator) /\ ~Falsy(its[i].creator) /\ Lower(its[i].creator) = Lower(creator)
           \/ Falsy(creator)

\* the loop body of find_similar_items for one stored item
SimilarNormalized(item, creator, normalized_input, normalized_item) ==
    \/ normalized_input = normalized_item
    \/ /\ normalized_input # normalized_item
       /\ Len(normalized_input) >= 5 /\ Len(normalized_item) >= 5
       /\ Contains(normalized_item, normalized_input) \/ Contains(normalized_input, normalized_item)
    \/ /\ ~Falsy(creator) /\ ~Falsy(item.creator)
       /\ Contains(Lower(item.creator), Lower(creator)) \/ Contains(Lower(creator), Lower(item.creator))
       /\ Prefix(normalized_input, 4) = Prefix(normalized_item, 4)

IsSimilar(item, title, creator) ==
    SimilarNormalized(item, creator, normalize_title(title, TRUE), normalize_title(item.title, TRUE))

\* find_similar_items(db, title, category, creator).  The search by the first
\* word is topped up with every item of the category while it holds fewer
\* than ten rows, so with fewer than ten items the whole category is examined.
find_similar_items(its, title, cat, creator) ==
    IF Len(normalize_title(title, TRUE)) < MIN_SIMILAR_LEN THEN {}
    ELSE { i \in get_items_by_category(its, cat) : IsSimilar(its[i], title, creator) }

\* create_item whose manual link is identified by the title instead of the item's id
create_item_TitleAsSourceId(its, links, id, cat, title, creator) ==
    [items |-> upsert_item(its, id, [category |-> cat, title |-> title, creator |-> creator,
                                     metadata |-> "{}", created_at |-> id]),
     links |-> upsert_item_source(links, [item_id |-> id, source |-> "manual",
                                          source_id |-> title, source_loved |-> "unknown"])]

\* create_item(db, item_id, category, title, creator): the item and its manual link
create_item(its, links, id, cat, title, creator) ==
    [items |-> upsert_item(its, id, [category |-> cat, title |-> title, creator |-> creator,
                                     metadata |-> "{}", created_at |-> id]),
     links |-> upsert_item_source(links, [item_id |-> id, source |-> "manual",
                                          source_id |-> UuidText(id), source_loved |-> "unknown"])]

\* cli_items.upsert_rating(db, item_id, loved=True): keeps an existing star rating
RateLoved(rts, item_id) ==
    upsert_rating(rts, item_id, [loved |-> "loved",
                                 rating |-> IF item_id \in DOMAIN rts THEN rts[item_id].rating ELSE NoRating])

\* ------------------------------------------------------------------------
\* Bounds and inputs
\* ------------------------------------------------------------------------

\* objects (items, wishlist entries) constructed in one behaviour of Spec
MaxClock == 5
\* objects constructed in one behaviour of the other specifications
MaxObjects == 3
\* candidates in one parsed batch
MaxBatch == 2

T_Money == <<"M","o","n","e","y">>
T_MONEY == <<"M","O","N","E","Y">>
T_Other == <<"O","t","h","e","r">>
T_Matrix == <<"M","a","t","r","i","x">>
T_Matrix2 == <<"M","a","t","r","i","x"," ","2">>
T_Matrix3 == <<"M","a","t","r","i","x"," ","3">>
T_Dune == <<"D","u","n","e">>
T_Smith == <<"S","m","i","t","h">>
T_Smyth == <<"S","m","y","t","h">>
T_Jones == <<"J","o","n","e","s">>

\* a candidate (Item, ItemSource) pair as a parser yields it
Cand(title, creator, category, source_id, source_rating, metadata) ==
    [title |-> title, creator |-> creator, category |-> category, source_id |-> source_id,
     source_rating |-> source_rating, source_loved |-> _rating_to_loved(source_rating),
     metadata |-> metadata]

\* GoodreadsImporter.parse_file: books, source_id is the Book Id column
Book(title, creator, book_id, metadata) == Cand(title, creator, "book", <<book_id>>, NoRating, metadata)

\* SteamImporter._parse_games: games, no creator, source_id is the appid,
\* loved from ten hours of playtime on
Game(name, appid, loved) ==
    [title |-> name, creator |-> None, category |-> "game", source_id |-> <<appid>>,
     source_rating |-> NoRating, source_loved |-> IF loved THEN "loved" ELSE "disliked",
     metadata |-> appid]

\* NetflixImporter.parse_file: movie or tv, no creator, source_id is the title
Netflix(title, category, rating) == Cand(title, None, category, title, rating, "netflix")

\* sequences of length 1..n over a pool
SeqsUpTo(pool, n) == UNION { [1..k -> pool] : k \in 1..n }

NoFaults(parsed) == [k \in 1..Len(parsed) |-> "none"]

\* no backup file
NoBackup == [timestamp |-> 0, reason |-> None, content |-> Content(<<>>, {}, <<>>, {}, <<>>)]

NoLast ==
    [op |-> "init", imp |-> "none", cat |-> "none", parsed |-> <<>>, faults |-> <<>>, parse_ok |-> TRUE,
     added |-> 0, updated |-> 0, errors |-> <<>>, outcomes |-> <<>>, removed |-> {},
     title |-> None, creator |-> None, force |-> FALSE, status |-> "none", backup |-> NoBackup]

NoFn == [name |-> "none", a |-> None, b |-> None, out |-> None]

Init ==
    /\ items = <<>>
    /\ item_sources = {}
    /\ ratings = <<>>
    /\ wishlist_items = {}
    /\ bulk = [c \in Categories |-> 0]
    /\ clock = 0
    /\ last = NoLast
    /\ backup_dir = {}
    /\ fn = NoFn

\* ------------------------------------------------------------------------
\* Operations
\* ------------------------------------------------------------------------

\* importer.import_from_file(path), called directly: parse, then reconcile
\* every candidate in parser order, return the ImportResult
ImportFromFile(imp, parsed, faults, parse_ok, max) ==
    /\ clock + Len(parsed) <= max
    /\ \E fin \in import_from_file(items, item_sources, ratings, bulk, clock, imp, parsed, faults, parse_ok) :
          /\ items' = fin.items
          /\ item_sources' = fin.links
          /\ ratings' = fin.ratings
          /\ last' = [NoLast EXCEPT !.op = "import_from_file", !.imp = imp, !.parsed = parsed,
                                    !.faults = faults, !.parse_ok = parse_ok,
                                    !.added = fin.added, !.updated = fin.updated,
                                    !.errors = fin.errors, !.outcomes = fin.outcomes]
    /\ clock' = clock + Len(parsed)
    /\ UNCHANGED <<wishlist_items, bulk, fn, backup_dir>>

\* importer.import_from_api(), called directly
ImportFromApi(configured, http_ok, games, max) ==
    /\ clock + Len(games) <= max
    /\ \E fin \in import_from_api(items, item_sources, ratings, clock, configured, http_ok, games) :
          /\ items' = fin.items
          /\ item_sources' = fin.links
          /\ ratings' = fin.ratings
          /\ last' = [NoLast EXCEPT !.op = "import_from_api", !.imp = "steam", !.parsed = games,
                                    !.faults = NoFaults(games), !.parse_ok = configured /\ http_ok,
                                    !.added = fin.added, !.updated = fin.updated,
                                    !.errors = fin.errors, !.outcomes = fin.outcomes]
    /\ clock' = clock + Len(games)
    /\ UNCHANGED <<wishlist_items, bulk, fn, backup_dir>>

\* "pre_import_<module name>", the reason of the backup an import command makes
PreImportReason(imp) ==
    <<"p","r","e","_","i","m","p","o","r","t","_">>
    \o (IF imp = "netflix" THEN <<"n","e","t","f","l","i","x">>
        ELSE <<"g","o","o","d","r","e","a","d","s">>)

\* the command "discovery import <name> FILE": _create_backup_before_import,
\* import_from_file, then prune_wishlist_and_report(db, importer.category, ...)
ImportCommand(imp, parsed, faults, parse_ok, max) ==
    /\ clock + Len(parsed) <= max
    /\ backup_dir' = create_backup(backup_dir, PreImportReason(imp),
                                   Content(items, item_sources, ratings, wishlist_items, bulk))
    /\ \E fin \in import_from_file(items, item_sources, ratings, bulk, clock, imp, parsed, faults, parse_ok) :
          \E removed \in {prune_wishlist(fin.items, wishlist_items, ImporterCategory(imp))} :
             /\ items' = fin.items
             /\ item_sources' = fin.links
             /\ ratings' = fin.ratings
             /\ wishlist_items' = wishlist_items \ removed
             /\ last' = [NoLast EXCEPT !.op = "import", !.imp = imp, !.parsed = parsed,
                                       !.faults = faults, !.parse_ok = parse_ok,
                                       !.added = fin.added, !.updated = fin.updated,
                                       !.errors = fin.errors, !.outcomes = fin.outcomes,
                                       !.removed = removed]
    /\ clock' = clock + Len(parsed)
    /\ UNCHANGED <<bulk, fn>>

\* the command "discovery add TITLE -c CATEGORY [-a CREATOR] [--loved] [--force]";
\* at the "Did you mean" prompt the user picks an existing item or a new one
Add(title, creator, cat, loved, force, max) ==
    /\ clock < max
    /\ \E exists \in {~force /\ ExactExists(items, title, creator, cat)} :
       LET Called(status) == [NoLast EXCEPT !.op = "add", !.cat = cat, !.title = title,
                                            !.creator = creator, !.force = force, !.status = status]
       IN \/ /\ exists
             /\ last' = Called("exists")
             /\ UNCHANGED <<items, item_sources, ratings, wishlist_items, clock>>
          \/ /\ ~force /\ ~exists
             /\ \E selected \in find_similar_items(items, title, cat, creator) :
                   /\ ratings' = IF loved THEN RateLoved(ratings, selected) ELSE ratings
                   /\ last' = Called("selected")
             /\ UNCHANGED <<items, item_sources, wishlist_items, clock>>
          \/ /\ ~exists
             /\ \E created \in {create_item(items, item_sources, clock + 1, cat, title, creator)} :
                \E removed \in {prune_wishlist(created.items, wishlist_items, cat)} :
                   /\ items' = created.items
                   /\ item_sources' = created.links
                   /\ ratings' = IF loved THEN RateLoved(ratings, clock + 1) ELSE ratings
                   /\ wishlist_items' = wishlist_items \ removed
                   /\ last' = [Called("added") EXCEPT !.removed = removed]
             /\ clock' = clock + 1
    /\ UNCHANGED <<bulk, fn, backup_dir>>

\* db.add_wishlist_item(WishlistItem(id=uuid4, ...))
AddWishlistItem(title, creator, cat, max) ==
    /\ clock < max
    /\ wishlist_items' = wishlist_items \cup
           {[id |-> clock + 1, category |-> cat, title |-> title, creator |-> creator]}
    /\ clock' = clock + 1
    /\ last' = [NoLast EXCEPT !.op = "add_wishlist_item", !.cat = cat, !.title = title, !.creator = creator]
    /\ UNCHANGED <<items, item_sources, ratings, bulk, fn, backup_dir>>

\* prune_wishlist(db, category), as "discovery wishlist prune [-c CATEGORY]" calls it
PruneWishlist(cat) ==
    /\ \E removed \in {prune_wishlist(items, wishlist_items, cat)} :
          /\ wishlist_items' = wishlist_items \ removed
          /\ last' = [NoLast EXCEPT !.op = "prune_wishlist", !.cat = cat, !.removed = removed]
    /\ UNCHANGED <<items, item_sources, ratings, bulk, clock, fn, backup_dir>>

\* the import of a large library into a category: n items are added,
\* none of which any search of the model returns or any matcher accepts
ImportLibrary(cat, n) ==
    /\ bulk[cat] = 0
    /\ bulk' = [bulk EXCEPT ![cat] = n]
    /\ last' = [NoLast EXCEPT !.op = "import_library", !.cat = cat, !.added = n]
    /\ UNCHANGED <<items, item_sources, ratings, wishlist_items, clock, fn, backup_dir>>

\* the command "discovery backup create [-r REASON]": db.create_backup(reason)
BackupCreate(reason, max) ==
    /\ NextTimestamp(backup_dir) <= max
    /\ backup_dir' = create_backup(backup_dir, reason,
                                   Content(items, item_sources, ratings, wishlist_items, bulk))
    /\ last' = [NoLast EXCEPT !.op = "backup_create"]
    /\ UNCHANGED <<items, item_sources, ratings, wishlist_items, bulk, clock, fn>>

\* the outcome of the restore command for the listed file p
RestoreListed(p) ==
    \E res \in {restore_backup(backup_dir, Content(items, item_sources, ratings, wishlist_items, bulk), p)} :
        /\ backup_dir' = res.dir
        /\ items' = res.content.items
        /\ item_sources' = res.content.item_sources
        /\ ratings' = res.content.ratings
        /\ wishlist_items' = res.content.wishlist_items
        /\ bulk' = res.content.bulk
        /\ last' = [NoLast EXCEPT !.op = "backup_restore", !.status = res.status, !.backup = p]

\* the command "discovery backup restore BACKUP_ID", confirmed at the prompt:
\* the BACKUP_ID-th entry of db.list_backups(), then db.restore_backup(path)
BackupRestore(backup_id, max) ==
    /\ NextTimestamp(backup_dir) <= max
    /\ IF backup_id < 1 \/ backup_id > Cardinality(backup_dir)
       THEN /\ last' = [NoLast EXCEPT !.op = "backup_restore", !.status = "invalid"]
            /\ UNCHANGED <<items, item_sources, ratings, wishlist_items, bulk, backup_dir>>
       ELSE RestoreListed(list_backups(backup_dir)[backup_id])
    /\ UNCHANGED <<clock, fn>>

\* ------------------------------------------------------------------------
\* Specification Spec: Goodreads imports, re-imports and parse failures
\* ------------------------------------------------------------------------

GoodreadsPool ==
    { Book(T_Money, T_Smith, "9", "m1"), Book(T_Money, T_Smith, "1", "m1"),
      Book(T_Other, T_Jones, "9", "m2") }

ImportBooks ==
    \E parsed \in SeqsUpTo(GoodreadsPool, MaxBatch) :
        ImportFromFile("goodreads", parsed, NoFaults(parsed), TRUE, MaxClock)

ParseFailure == ImportFromFile("goodreads", <<>>, <<>>, FALSE, MaxClock)

Next == ImportBooks \/ ParseFailure

Spec == Init /\ [][Next]_vars

\* ------------------------------------------------------------------------
\* Specification SpecFaults: imports during which one store call raises
\* ------------------------------------------------------------------------

FaultPool == { Book(T_Money, T_Smith, "9", "m1"), Book(T_Other, T_Jones, "9", "m2") }

\* the k-th candidate's processing raises at point p; the others run clean
OneFault(parsed, k, p) == [j \in 1..Len(parsed) |-> IF j = k THEN p ELSE "none"]

ImportFaulty ==
    \E parsed \in SeqsUpTo(FaultPool, MaxBatch) : \E k \in 1..Len(parsed) : \E p \in FaultPoints :
        ImportFromFile("goodreads", parsed, OneFault(parsed, k, p), TRUE, MaxObjects)

NextFaults == ImportFaulty

SpecFaults == Init /\ [][NextFaults]_vars

\* ------------------------------------------------------------------------
\* Specification SpecManual: manual adds, Goodreads imports, a large library
\* ------------------------------------------------------------------------

ManualPool == { Book(T_Money, T_Smith, "1", "m1"), Book(T_Money, T_Smith, "9", "m1"),
                Book(T_Matrix3, T_Smyth, "3", "m1") }

AddTitles == {T_MONEY, T_Matrix2}
AddCreators == {None, T_Smith}

\* sizes of the large library: one below the fallback-scan ceiling, and the ceiling
LibrarySizes == {FALLBACK_SCAN_CEILING - 1, FALLBACK_SCAN_CEILING}

ImportOneBook ==
    \E c \in ManualPool : ImportFromFile("goodreads", <<c>>, <<"none">>, TRUE, MaxObjects)

AddBook ==
    \E title \in AddTitles, creator \in AddCreators, force \in BOOLEAN :
        Add(title, creator, "book", FALSE, force, MaxObjects)

ImportBookLibrary == \E n \in LibrarySizes : ImportLibrary("book", n)

NextManual == ImportOneBook \/ AddBook \/ ImportBookLibrary

SpecManual == Init /\ [][NextManual]_vars

\* ------------------------------------------------------------------------
\* Specification SpecWishlist: wishlist entries, Netflix import commands,
\* manual adds and prune commands over movies and tv
\* ------------------------------------------------------------------------

NetflixPool == { Netflix(T_Dune, "tv", NoRating), Netflix(T_Dune, "movie", 5),
                 Netflix(T_Matrix2, "movie", NoRating) }

\* the wishlist entries a user adds: (title, creator, category)
WishPool == { <<T_Dune, None, "tv">>, <<T_Dune, T_Smith, "movie">>,
              <<T_Matrix, None, "movie">>, <<T_Matrix3, None, "movie">> }
VideoCategories == {"movie", "tv"}

ImportNetflix ==
    \E c \in NetflixPool : ImportCommand("netflix", <<c>>, <<"none">>, TRUE, MaxObjects)

AddWish ==
    \E w \in WishPool : AddWishlistItem(w[1], w[2], w[3], MaxObjects)

AddVideo ==
    \E title \in {T_Dune}, creator \in {T_Jones}, cat \in VideoCategories :
        Add(title, creator, cat, TRUE, FALSE, MaxObjects)

Prune == \E cat \in VideoCategories \cup {AnyCategory} : PruneWishlist(cat)

NextWishlist == ImportNetflix \/ AddWish \/ AddVideo \/ Prune

SpecWishlist == Init /\ [][NextWishlist]_vars

\* ------------------------------------------------------------------------
\* Specification SpecBackup: backups, restores and manual adds of a movie
\* ------------------------------------------------------------------------

\* backup files written in one behaviour
MaxBackups == 11
\* items added in one behaviour of SpecBackup
MaxWrites == 1

T_manual == <<"m","a","n","u","a","l">>

AddMovie == Add(T_Dune, None, "movie", FALSE, TRUE, MaxWrites)

CreateBackup == BackupCreate(T_manual, MaxBackups)

\* the newest and the MAX_BACKUPS-th entry of the list ("Invalid backup ID"
\* while the list is shorter)
RestoreById == \E backup_id \in {1, MAX_BACKUPS} : BackupRestore(backup_id, MaxBackups)

NextBackup == AddMovie \/ CreateBackup \/ RestoreById

SpecBackup == Init /\ [][NextBackup]_vars

\* ------------------------------------------------------------------------
\* Specification SpecDedup: single-candidate imports against manual items:
\* numbered sequels, titles longer than the search prefix, a rated movie,
\* a large library
\* ------------------------------------------------------------------------

T_Smiith == <<"S","m","i","i","t","h">>
T_Around == <<"A","r","o","u","n","d"," ","t","h","e"," ","W","o","r","l","d"," ","T","o","d","a","y">>
T_AroundBang == T_Around \o <<"!">>
T_Around2 == T_Around \o <<" ","2">>

DedupPool == { Book(T_Matrix3, T_Jones, "4", "m1"), Book(T_Matrix3, T_Smiith, "6", "m1"),
               Book(T_AroundBang, None, "5", "m1"), Book(T_Around2, None, "7", "m1") }

\* manual adds with --force: (title, creator, category)
DedupAdds == { <<T_Matrix2, None, "book">>, <<T_Matrix2, T_Smith, "book">>,
               <<T_Around, None, "book">>, <<T_Dune, None, "movie">> }

ImportDedupBook ==
    \E c \in DedupPool : ImportFromFile("goodreads", <<c>>, <<"none">>, TRUE, MaxObjects)

ImportRatedMovie ==
    ImportFromFile("netflix", <<Netflix(T_Dune, "movie", 5)>>, <<"none">>, TRUE, MaxObjects)

AddForced == \E a \in DedupAdds : Add(a[1], a[2], a[3], FALSE, TRUE, MaxObjects)

ImportLargeLibrary == ImportLibrary("book", FALLBACK_SCAN_CEILING)

NextDedup == ImportDedupBook \/ ImportRatedMovie \/ AddForced \/ ImportLargeLibrary

SpecDedup == Init /\ [][NextDedup]_vars

\* ------------------------------------------------------------------------
\* Specification SpecPure: the text functions applied to titles built from
\* leading articles, a core and an edition or punctuation tail
\* ------------------------------------------------------------------------

TitleLeads == { <<>>, <<"T","h","e"," ">>, <<"A"," ">>, <<"t","h","e","."," ">> }
TitleSeconds == { <<>>, <<"T","h","e"," ">>, <<"A","n"," ">> }
TitleCores == { <<"X">>, <<"D","u","n","e">>, <<"M","a","t","r","i","x"," ","2">> }
TitleTails == { <<>>, <<" ","(","D","e","l","u","x","e",")">>, <<":"," ","R","e","m","a","s","t","e","r","e","d">>, <<"!">> }

TitleInputs ==
    { a \o b \o c \o d : a \in TitleLeads, b \in TitleSeconds, c \in TitleCores, d \in TitleTails }

InitPure ==
    /\ items = <<>>
    /\ item_sources = {}
    /\ ratings = <<>>
    /\ wishlist_items = {}
    /\ bulk = [c \in Categories |-> 0]
    /\ clock = 0
    /\ last = NoLast
    /\ backup_dir = {}
    /\ \E x \in TitleInputs : fn = [NoFn EXCEPT !.name = "input", !.a = x]

\* normalize_title(x)
ApplyNormalize ==
    /\ fn.name = "input"
    /\ fn' = [fn EXCEPT !.name = "normalize_title", !.out = normalize_title(fn.a, TRUE)]
    /\ UNCHANGED <<items, item_sources, ratings, wishlist_items, bulk, clock, last, backup_dir>>

\* normalize_title(normalize_title(x)): b keeps the first result
ApplyNormalizeAgain ==
    /\ fn.name = "normalize_title"
    /\ fn' = [fn EXCEPT !.name = "normalize_title_twice", !.b = fn.out,
                        !.out = normalize_title(fn.out, TRUE)]
    /\ UNCHANGED <<items, item_sources, ratings, wishlist_items, bulk, clock, last, backup_dir>>

NextPure == ApplyNormalize \/ ApplyNormalizeAgain

SpecPure == InitPure /\ [][NextPure]_vars

\* ------------------------------------------------------------------------
\* Specification SpecMatch: the matchers applied to pairs of titles and
\* pairs of creators, at several thresholds
\* ------------------------------------------------------------------------

T_TheDune == <<"T","h","e"," ","D","u","n","e">>
T_Dune2 == <<"D","u","n","e"," ","2">>
T_Colossus == <<"C","o","l","o","s","s","u","s">>
T_Colossas == <<"C","o","l","o","s","s","a","s">>
T_Colosssus == <<"C","o","l","o","s","s","s","u","s">>
T_Honey == <<"H","o","n","e","y">>
T_Moneyball == <<"M","o","n","e","y","b","a","l","l">>
T_Blank == <<" ">>
T_The == <<"T","h","e"," ">>
T_JSmith == <<"J"," ","S","m","i","t","h">>
T_DuneSea == <<"D","u","n","e"," ","S","e","a">>

TitleArgs == { None, <<>>, T_Blank, T_The, T_Dune, T_TheDune, T_Dune2, T_Matrix, T_Matrix2,
               T_Matrix3, T_Colossus, T_Colossas, T_Colosssus, T_Money, T_Honey, T_Moneyball,
               T_DuneSea }
CreatorArgs == { None, <<>>, T_Blank, T_Smith, T_Smyth, T_JSmith, T_Jones }

\* the thresholds the callers pass: the three defaults, the two of the
\* fallback scan, and the lowest score
Thresholds == {0, CREATOR_THRESHOLD, TITLE_THRESHOLD, 90, STRICT_TITLE_THRESHOLD, 100}

MatchInput(a, b, threshold) ==
    [name |-> "input", a |-> a, b |-> b, threshold |-> threshold,
     out |-> FALSE, rev |-> FALSE, refl |-> FALSE, strict |-> FALSE]

InitMatch ==
    /\ items = <<>>
    /\ item_sources = {}
    /\ ratings = <<>>
    /\ wishlist_items = {}
    /\ bulk = [c \in Categories |-> 0]
    /\ clock = 0
    /\ last = NoLast
    /\ backup_dir = {}
    /\ \E pair \in (TitleArgs \X TitleArgs) \cup (CreatorArgs \X CreatorArgs) : \E t \in Thresholds :
          fn = MatchInput(pair[1], pair[2], t)

\* titles_match(a, b, t), titles_match(b, a, t) and titles_match(a, a, t)
ApplyTitlesMatch ==
    /\ fn.name = "input"
    /\ fn' = [fn EXCEPT !.name = "titles_match",
                        !.out = titles_match(fn.a, fn.b, fn.threshold),
                        !.rev = titles_match(fn.b, fn.a, fn.threshold),
                        !.refl = titles_match(fn.a, fn.a, fn.threshold)]
    /\ UNCHANGED <<items, item_sources, ratings, wishlist_items, bulk, clock, last, backup_dir>>

\* titles_match(a, b) and titles_match_strict(a, b) with their default thresholds
ApplyBothTiers ==
    /\ fn.name = "input"
    /\ fn' = [fn EXCEPT !.name = "both_tiers",
                        !.out = titles_match(fn.a, fn.b, TITLE_THRESHOLD),
                        !.strict = titles_match_strict(fn.a, fn.b, STRICT_TITLE_THRESHOLD)]
    /\ UNCHANGED <<items, item_sources, ratings, wishlist_items, bulk, clock, last, backup_dir>>

\* creators_match(a, b, t)
ApplyCreatorsMatch ==
    /\ fn.name = "input"
    /\ fn' = [fn EXCEPT !.name = "creators_match",
                        !.out = creators_match(fn.a, fn.b, fn.threshold)]
    /\ UNCHANGED <<items, item_sources, ratings, wishlist_items, bulk, clock, last, backup_dir>>

NextMatch == ApplyTitlesMatch \/ ApplyBothTiers \/ ApplyCreatorsMatch

SpecMatch == InitMatch /\ [][NextMatch]_vars

\* ------------------------------------------------------------------------
\* Specification SpecSteam: a Steam library imported through the API and from
\* a JSON file, re-imported, with a game renamed between two imports
\* ------------------------------------------------------------------------

T_Portal == <<"P","o","r","t","a","l">>
T_PortalRtx == <<"P","o","r","t","a","l"," ","R","T","X">>

SteamPool == { Game(T_Portal, "4", TRUE), Game(T_PortalRtx, "4", TRUE), Game(T_Dune, "6", FALSE) }

ImportSteamApi ==
    \E games \in SeqsUpTo(SteamPool, MaxBatch) : ImportFromApi(TRUE, TRUE, games, MaxClock)

ImportSteamFile ==
    \E parsed \in SeqsUpTo(SteamPool, MaxBatch) :
        ImportFromFile("steam", parsed, NoFaults(parsed), TRUE, MaxClock)

\* the API import without credentials, or with the HTTP request failing
SteamApiUnavailable ==
    \E configured \in BOOLEAN : ImportFromApi(configured, FALSE, <<>>, MaxClock)

NextSteam == ImportSteamApi \/ ImportSteamFile \/ SteamApiUnavailable

SpecSteam == Init /\ [][NextSteam]_vars

\* ------------------------------------------------------------------------
\* Specification SpecSequel: strip_sequel_numbers applied to normalized titles
\* ------------------------------------------------------------------------

SequelCores == { <<"d","u","n","e">>, <<"r","u","n">>, <<"m","a","s","s"," ","e","f","f","e","c","t">>,
                 <<"d","a","r","k"," ","s","o","u","l","s">>, <<"p","a","r","t">> }
SequelTails == { <<>>, <<" ","2">>, <<" ","i","i">>, <<" ","i","v">>, <<" ","x">>, <<" ","1","0">>,
                 <<" ","d","m","c">>, <<" ","m","i","l","d">>, <<" ","s","e","a">>,
                 <<" ","2"," ","i","i">>, <<" ","i","i"," ","2">>, <<" ","i","i"," ","i","v">>,
                 <<" ","2"," ","3">> }

\* titles as titles_match passes them: lowercase, single spaces, no punctuation
SequelInputs == { c \o t : c \in SequelCores, t \in SequelTails }

InitSequel ==
    /\ items = <<>>
    /\ item_sources = {}
    /\ ratings = <<>>
    /\ wishlist_items = {}
    /\ bulk = [c \in Categories |-> 0]
    /\ clock = 0
    /\ last = NoLast
    /\ backup_dir = {}
    /\ \E x \in SequelInputs : fn = [NoFn EXCEPT !.name = "input", !.a = x]

\* strip_sequel_numbers(x)
ApplyStripSequel ==
    /\ fn.name = "input"
    /\ fn' = [fn EXCEPT !.name = "strip_sequel_numbers", !.out = strip_sequel_numbers(fn.a)]
    /\ UNCHANGED <<items, item_sources, ratings, wishlist_items, bulk, clock, last, backup_dir>>

NextSequel == ApplyStripSequel

SpecSequel == InitSequel /\ [][NextSequel]_vars

\* ------------------------------------------------------------------------
\* Properties of the import reconciler
\* ------------------------------------------------------------------------

ImportReturned == last'.op = "import_from_file"

\* C1: an import of a batch whose parse succeeded, run again at once on the
\* identical batch, reports added = 0 and updated = N on the second run and
\* leaves the number of items of every category as it was.
C1_ReimportIdempotent ==
    [][ ( /\ last.op = "import_from_file" /\ last.parse_ok
          /\ ImportReturned /\ last'.parse_ok
          /\ last'.imp = last.imp /\ last'.parsed = last.parsed )
        => ( /\ last'.added = 0
             /\ last'.updated = Len(last'.parsed)
             /\ \A c \in Categories : CategoryCount(items', bulk', c) = CategoryCount(items, bulk, c) ) ]_vars

\* the candidates of the returned batch that the source-identity path resolved to item i
BySource(l, i) == { k \in 1..Len(l.outcomes) : l.outcomes[k].via = "source" /\ l.outcomes[k].item_id = i }

\* C3: a candidate whose (source, source id) is already linked to item i is
\* resolved to i as UPDATED whatever its title and creator; no item is created
\* for it, i keeps its id, category and creation time, and i's title, creator
\* and metadata are those of the last such candidate.
C3_SourceIdentityWins ==
    [][ (ImportReturned /\ last'.parse_ok) =>
        \A k \in 1..Len(last'.parsed) :
            \A i \in find_item_by_source(items, item_sources, last'.imp, last'.parsed[k].source_id) :
                LET o == last'.outcomes[k]
                    final == CHOOSE j \in BySource(last', i) : \A m \in BySource(last', i) : m <= j
                IN /\ o.kind = "UPDATED" /\ o.via = "source" /\ o.item_id = i
                   /\ DOMAIN items' \ DOMAIN items = { last'.outcomes[j].item_id :
                          j \in { m \in 1..Len(last'.outcomes) : last'.outcomes[m].kind = "ADDED" } }
                   /\ i \in DOMAIN items'
                   /\ items'[i].created_at = items[i].created_at
                   /\ items'[i].category = items[i].category
                   /\ items'[i].title = last'.parsed[final].title
                   /\ items'[i].creator = last'.parsed[final].creator
                   /\ items'[i].metadata = last'.parsed[final].metadata ]_vars

\* an import re-reported a linked source id twice under two titles and creators
C3_Witness ==
    /\ last.op = "import_from_file" /\ Len(last.parsed) = 2
    /\ last.outcomes[1].via = "source" /\ last.outcomes[2].via = "source"
    /\ last.outcomes[1].item_id = last.outcomes[2].item_id
    /\ last.outcomes[1].item_id <= clock - 2
    /\ last.parsed[1].title # last.parsed[2].title
    /\ last.parsed[1].creator # last.parsed[2].creator
    /\ items[last.outcomes[2].item_id].title = last.parsed[2].title

\* the positions of the returned batch at which processing raised, in order
RECURSIVE RaisedTitles(_, _)
RaisedTitles(l, k) ==
    IF k > Len(l.outcomes) THEN <<>>
    ELSE (IF l.outcomes[k].raised THEN <<l.parsed[k].title>> ELSE <<>>) \o RaisedTitles(l, k + 1)

\* C4: when processing of a candidate raises, the call still returns a result;
\* errors holds one entry per raising candidate, naming its title, in parser
\* order; every candidate of the batch, the later ones included, has been
\* processed in parser order, and a later candidate that did not raise is
\* counted and linked in the store.
C4_PerItemErrorsIsolated ==
    [][ (ImportReturned /\ last'.parse_ok) =>
        /\ Len(last'.outcomes) = Len(last'.parsed)
        /\ last'.errors = RaisedTitles(last', 1)
        /\ \A k \in 1..Len(last'.parsed) :
              /\ last'.outcomes[k].raised => last'.faults[k] # "none"
              /\ ~last'.outcomes[k].raised =>
                    /\ last'.outcomes[k].kind \in {"ADDED", "UPDATED"}
                    /\ last'.outcomes[k].kind = "ADDED" => last'.outcomes[k].item_id = clock + k
                    /\ \E l \in item_sources' : /\ l.item_id = last'.outcomes[k].item_id
                                                /\ l.source = last'.imp
                                                /\ l.item_id \in DOMAIN items' ]_vars

\* the first candidate of a batch raised and the second one was added or updated
C4_Witness ==
    /\ last.op = "import_from_file" /\ Len(last.parsed) = 2
    /\ last.outcomes[1].raised /\ ~last.outcomes[2].raised
    /\ last.errors = <<last.parsed[1].title>>
    /\ last.added + last.updated = 1

\* C5: when the parser raises, the result has added = 0, updated = 0 and
\* exactly one error, and items, source links, ratings and wishlist are as
\* they were before the call.
C5_ParseFailureLeavesStore ==
    [][ (ImportReturned /\ ~last'.parse_ok) =>
        /\ last'.added = 0 /\ last'.updated = 0
        /\ Len(last'.errors) = 1
        /\ store' = store ]_vars

\* a parse failure was reported on a store that holds items and links
C5_Witness ==
    /\ last.op = "import_from_file" /\ ~last.parse_ok
    /\ Len(last.errors) = 1
    /\ DOMAIN items # {} /\ item_sources # {}

\* ------------------------------------------------------------------------
\* Properties of duplicate matching against manual items, and of manual add
\* ------------------------------------------------------------------------

\* the SourceLinks of item i
LinksOf(links, i) == { l \in links : l.item_id = i }

\* item i carries a manual SourceLink and no other
OnlyManual(links, i) == LinksOf(links, i) # {} /\ \A l \in LinksOf(links, i) : l.source = "manual"

\* item i is of the candidate's category and matches it: lenient title tier,
\* creator at the default threshold
Matches(its, i, c) ==
    /\ its[i].category = c.category
    /\ titles_match(its[i].title, c.title, TITLE_THRESHOLD)
    /\ creators_match(its[i].creator, c.creator, CREATOR_THRESHOLD)

C8_ExactDuplicateRejected ==
    [][ (last'.op = "add" /\ ~last'.force) =>
        ( (\E i \in DOMAIN items :
              /\ items[i].category = last'.cat
              /\ Lower(items[i].title) = Lower(last'.title)
              /\ \/ Falsy(last'.creator)
                 \/ ~Falsy(items[i].creator) /\ Lower(items[i].creator) = Lower(last'.creator))
          => ( /\ last'.status = "exists"
               /\ items' = items /\ item_sources' = item_sources
               /\ \A c \in Categories : CategoryCount(items', bulk', c) = CategoryCount(items, bulk, c) ) ) ]_vars

\* an add of "MONEY" was rejected because of the imported item "Money"
C8_Witness ==
    /\ last.op = "add" /\ last.status = "exists" /\ ~last.force
    /\ last.title = T_MONEY /\ last.creator = T_Smith
    /\ \E i \in DOMAIN items : items[i].title = T_Money /\ ~OnlyManual(item_sources, i)

\* both store searches of _find_duplicate come back empty for candidate c
SearchesEmpty(its, c) ==
    /\ search_items(its, c.title, c.category) = {}
    /\ search_items(its, Prefix(c.title, TITLE_PREFIX_LEN), c.category) = {}

\* the items of c's category that pass the strict title and creator check
StrictHits(its, c) ==
    { m \in get_items_by_category(its, c.category) : _is_strict_title_match(its[m], c) }

\* C9: with the source identity not linked and both searches empty, a category
\* of more than 5000 items is not scanned and the candidate is ADDED, whatever
\* item would pass the strict check; with at most 5000 the scan is made, and
\* links the candidate to an item that passes or, if none does, it is ADDED.
C9_ScanCeiling ==
    [][ (ImportReturned /\ last'.parse_ok /\ Len(last'.parsed) = 1) =>
        LET c == last'.parsed[1]
            o == last'.outcomes[1]
        IN ( /\ find_item_by_source(items, item_sources, last'.imp, c.source_id) = {}
             /\ SearchesEmpty(items, c) ) =>
               IF CategoryCount(items, bulk, c.category) > FALLBACK_SCAN_CEILING
               THEN /\ ~o.scanned /\ o.kind = "ADDED" /\ last'.added = 1
                    /\ CategoryCount(items', bulk', c.category) = CategoryCount(items, bulk, c.category) + 1
               ELSE /\ o.scanned
                    /\ IF StrictHits(items, c) = {} THEN o.kind = "ADDED"
                       ELSE o.kind = "UPDATED" /\ o.via = "scan" /\ o.item_id \in StrictHits(items, c) ]_vars

\* above the ceiling a candidate was added although the manual item
\* "Matrix 2" passes the strict check against it
C9_Witness ==
    /\ last.op = "import_from_file" /\ Len(last.parsed) = 1
    /\ last.outcomes[1].kind = "ADDED" /\ ~last.outcomes[1].scanned
    /\ last.parsed[1].title = T_Matrix3
    /\ \E i \in DOMAIN items : items[i].title = T_Matrix2 /\ _is_strict_title_match(items[i], last.parsed[1])
    /\ CategoryCount(items, bulk, "book") = FALLBACK_SCAN_CEILING + 2

\* ------------------------------------------------------------------------
\* Properties of the wishlist pruner
\* ------------------------------------------------------------------------

\* wishlist entry w matches item i: same category, lenient title tier, creator
\* at the default threshold
EntryMatches(its, w, i) ==
    /\ its[i].category = w.category
    /\ titles_match(its[i].title, w.title, TITLE_THRESHOLD)
    /\ creators_match(its[i].creator, w.creator, CREATOR_THRESHOLD)

\* C6 as claimed: after prune_wishlist(C) no entry in scope remains that
\* matches some item of its category; every such entry was deleted and is in
\* the returned list.
C6_NoMatchingEntryRemains ==
    [][ last'.op = "prune_wishlist" =>
        /\ \A w \in get_wishlist_items(wishlist_items', last'.cat) :
              ~ \E i \in DOMAIN items' : EntryMatches(items', w, i)
        /\ \A w \in get_wishlist_items(wishlist_items, last'.cat) :
              (\E i \in DOMAIN items : EntryMatches(items, w, i)) =>
                  w \notin wishlist_items' /\ w \in last'.removed ]_vars

\* C6 amended: after prune_wishlist(C) no entry in scope remains for which the
\* store search for the entry's title, within its category, returns an item
\* that matches it; every such entry was deleted and is in the returned list.
C6_NoSearchedMatchRemains ==
    [][ last'.op = "prune_wishlist" =>
        /\ \A w \in get_wishlist_items(wishlist_items', last'.cat) :
              ~ \E i \in search_items(items', w.title, w.category) : EntryMatches(items', w, i)
        /\ \A w \in get_wishlist_items(wishlist_items, last'.cat) :
              (\E i \in search_items(items, w.title, w.category) : EntryMatches(items, w, i)) =>
                  w \notin wishlist_items' /\ w \in last'.removed ]_vars

\* a prune removed the entry "Matrix", matched by the item "Matrix 2" that
\* the search for "Matrix" returns
C6_Witness ==
    /\ last.op = "prune_wishlist"
    /\ \E w \in last.removed :
          /\ w.title = T_Matrix /\ w \notin wishlist_items
          /\ \E i \in DOMAIN items : items[i].title = T_Matrix2 /\ EntryMatches(items, w, i)

\* C7: after an import command, no wishlist entry remains that the pruner's
\* rule matches to an item the import added or linked, in whichever category
\* that item is.
C7_ImportPrunesTouchedCategories ==
    [][ last'.op = "import" =>
        \A k \in 1..Len(last'.outcomes) :
            ~last'.outcomes[k].raised =>
                \A w \in wishlist_items' :
                    last'.outcomes[k].item_id \notin find_wishlist_matches(items', w) ]_vars

\* ------------------------------------------------------------------------
\* Properties of the text functions
\* ------------------------------------------------------------------------

\* C10: normalize_title is idempotent: normalizing a normalized title returns
\* it unchanged, for titles with several leading articles or punctuation
\* after the article too.
C10_NormalizeIdempotent ==
    fn.name = "normalize_title_twice" => fn.out = fn.b

\* C11: titles_match is reflexive on non-empty titles and symmetric, at every
\* threshold: titles_match(a, a, t) is true for each non-empty a, and
\* titles_match(a, b, t) = titles_match(b, a, t).
C11_TitlesMatchReflexiveSymmetric ==
    fn.name = "titles_match" =>
        /\ ~Falsy(fn.a) => fn.refl
        /\ fn.out = fn.rev

\* a pair accepted in both orders by the substring step only ("Money" within
\* "Moneyball"), at the highest threshold
C11_Witness ==
    /\ fn.name = "titles_match" /\ fn.a = T_Moneyball /\ fn.b = T_Money /\ fn.threshold = 100
    /\ fn.out /\ fn.rev /\ fn.refl

\* C12: creators_match is true whenever either creator is None or empty,
\* whatever the other creator and the threshold.
C12_MissingCreatorMatches ==
    (fn.name = "creators_match" /\ (Falsy(fn.a) \/ Falsy(fn.b))) => fn.out

\* a missing creator matched "Jones" at threshold 100
C12_Witness ==
    /\ fn.name = "creators_match" /\ fn.a = None /\ fn.b = T_Jones /\ fn.threshold = 100
    /\ fn.out

\* the normalized titles reach the fuzzy step (not equal, no qualifying
\* substring, not sequel-equal) and score at least 85 and below 92
InFuzzyBand(norm1, norm2) ==
    /\ norm1 # norm2
    /\ ~((Contains(norm2, norm1) \/ Contains(norm1, norm2)) /\ Min(Len(norm1), Len(norm2)) >= 5)
    /\ ~SequelEqual(strip_sequel_numbers(norm1), strip_sequel_numbers(norm2))
    /\ token_set_ratio_at_least(norm1, norm2, TITLE_THRESHOLD)
    /\ ~token_set_ratio_at_least(norm1, norm2, STRICT_TITLE_THRESHOLD)

\* C13: at the default thresholds titles_match_strict(a, b) implies
\* titles_match(a, b), and the lenient tier accepts a pair the strict tier
\* rejects exactly when the pair reaches the fuzzy step with a token-set score
\* of at least 85 and below 92.
C13_StrictRefinesLenient ==
    fn.name = "both_tiers" =>
        /\ fn.strict => fn.out
        /\ (fn.out /\ ~fn.strict) <=>
              ( /\ ~Falsy(fn.a) /\ ~Falsy(fn.b)
                /\ InFuzzyBand(normalize_title(fn.a, TRUE), normalize_title(fn.b, TRUE)) )

\* "Colossus" and "Colossas" (score 87.5): accepted by the lenient tier,
\* rejected by the strict tier
C13_Witness ==
    /\ fn.name = "both_tiers" /\ fn.a = T_Colossus /\ fn.b = T_Colossas
    /\ fn.out /\ ~fn.strict

\* ------------------------------------------------------------------------
\* Properties of backup and restore
\* ------------------------------------------------------------------------

\* C14: for every backup p that list_backups returns, restore_backup(p)
\* returns True and the database content afterwards is the content captured
\* in p.
C14_RestoreListedBackup ==
    [][ (last'.op = "backup_restore" /\ last'.backup \in backup_dir) =>
        /\ last'.status = "restored"
        /\ Content(items', item_sources', ratings', wishlist_items', bulk') = last'.backup.content ]_vars

\* C15: at most MAX_BACKUPS backup files exist and the files kept are the
\* most recent ones: a backup is deleted only if at least MAX_BACKUPS newer
\* ones are kept, and the backup that create_backup has just written is kept.
C15_NewestBackupsKept ==
    [][ /\ Cardinality(backup_dir') <= MAX_BACKUPS
        /\ \A f \in backup_dir \ backup_dir' :
              Cardinality({ g \in backup_dir' : g.timestamp > f.timestamp }) >= MAX_BACKUPS
        /\ last'.op = "backup_create" =>
              \E f \in backup_dir' : \A g \in backup_dir : f.timestamp > g.timestamp ]_vars

\* the directory is full and its oldest backups have been deleted
C15_Witness ==
    /\ Cardinality(backup_dir) = MAX_BACKUPS
    /\ \A f \in backup_dir : f.timestamp >= 2
    /\ \E f \in backup_dir : f.reason # T_manual

\* ------------------------------------------------------------------------
\* Properties of the passes of _find_duplicate
\* ------------------------------------------------------------------------

\* the rows of the full-title search that the first loop accepts
Pass1Accepted(its, c) ==
    { m \in search_items(its, c.title, c.category) : Matches(its, m, c) }

\* the rows of the shortened-title search that the second loop accepts
Pass2Accepted(its, c) ==
    { m \in search_items(its, Prefix(c.title, TITLE_PREFIX_LEN), c.category) :
        /\ normalize_title(its[m].title, TRUE) = normalize_title(c.title, TRUE)
        /\ creators_match(its[m].creator, c.creator, CREATOR_THRESHOLD) }

\* the source-identity lookup for candidate c missed
LookupMissed(its, links, imp, c) == find_item_by_source(its, links, imp, c.source_id) = {}

\* C16 as claimed: the fallback scan is executed exactly when the lookup
\* missed and both searches returned no row; when a search returned a row and
\* no row was accepted, no scan is made and the candidate is ADDED.
C16_ScanIffSearchesEmpty ==
    [][ (ImportReturned /\ last'.parse_ok /\ Len(last'.parsed) = 1) =>
        LET c == last'.parsed[1]
            o == last'.outcomes[1]
        IN /\ o.scanned <=> (LookupMissed(items, item_sources, last'.imp, c) /\ SearchesEmpty(items, c))
           /\ ( /\ LookupMissed(items, item_sources, last'.imp, c) /\ ~SearchesEmpty(items, c)
                /\ Pass1Accepted(items, c) = {} /\ Pass2Accepted(items, c) = {} )
              => (~o.scanned /\ o.kind = "ADDED") ]_vars

\* C16 amended: the same, the scan being executed exactly when the lookup
\* missed, both searches returned no row and the category holds at most
\* FALLBACK_SCAN_CEILING items.
C16_ScanIffSearchesEmptyBelowCeiling ==
    [][ (ImportReturned /\ last'.parse_ok /\ Len(last'.parsed) = 1) =>
        LET c == last'.parsed[1]
            o == last'.outcomes[1]
        IN /\ o.scanned <=> ( /\ LookupMissed(items, item_sources, last'.imp, c)
                              /\ SearchesEmpty(items, c)
                              /\ CategoryCount(items, bulk, c.category) <= FALLBACK_SCAN_CEILING )
           /\ ( /\ LookupMissed(items, item_sources, last'.imp, c) /\ ~SearchesEmpty(items, c)
                /\ Pass1Accepted(items, c) = {} /\ Pass2Accepted(items, c) = {} )
              => (~o.scanned /\ o.kind = "ADDED") ]_vars

\* "Matrix 3" by Smiith was added without a scan: the search returned
\* "Matrix 3" by Jones, which fails the creator check, while the manual item
\* "Matrix 2" passes the strict check
C16_Witness ==
    /\ last.op = "import_from_file" /\ Len(last.parsed) = 1
    /\ last.parsed[1].title = T_Matrix3 /\ last.parsed[1].creator = T_Smiith
    /\ last.outcomes[1].kind = "ADDED" /\ ~last.outcomes[1].scanned
    /\ \E x \in DOMAIN items : items[x].title = T_Matrix3 /\ items[x].creator = T_Jones
    /\ \E y \in DOMAIN items : items[y].title = T_Matrix2 /\ _is_strict_title_match(items[y], last.parsed[1])
    /\ CategoryCount(items, bulk, "book") <= FALLBACK_SCAN_CEILING

\* the first word of a title, or its first 5 characters if it has no space
ShortPrefix(title) ==
    IF \E k \in 1..Len(title) : IsSpace(title[k])
    THEN Prefix(title, (CHOOSE k \in 1..Len(title) : IsSpace(title[k]) /\ \A m \in 1..(k - 1) : ~IsSpace(title[m])) - 1)
    ELSE Prefix(title, 5)

\* C17 as claimed: when the first pass accepts no row, the store is queried
\* with the first word of the title (its first 5 characters if it has no
\* space) and the candidate is linked to a returned item that matches it:
\* lenient title tier, creator at the default threshold.
C17_ShortPrefixLenientPass ==
    [][ (ImportReturned /\ last'.parse_ok /\ Len(last'.parsed) = 1) =>
        LET c == last'.parsed[1]
            o == last'.outcomes[1]
        IN (LookupMissed(items, item_sources, last'.imp, c) /\ Pass1Accepted(items, c) = {}) =>
              \A m \in search_items(items, ShortPrefix(c.title), c.category) :
                  Matches(items, m, c) =>
                      /\ o.kind = "UPDATED"
                      /\ Matches(items, o.item_id, c)
                      /\ o.item_id \in search_items(items, ShortPrefix(c.title), c.category) ]_vars

\* C17 amended: when the first pass accepts no row, the store is queried with
\* the first TITLE_PREFIX_LEN characters of the title and the candidate is
\* linked to a returned item whose normalized title equals the candidate's
\* normalized title and whose creator matches at the default threshold; the
\* second pass links to no other item.
C17_TitlePrefixNormalizedPass ==
    [][ (ImportReturned /\ last'.parse_ok /\ Len(last'.parsed) = 1) =>
        LET c == last'.parsed[1]
            o == last'.outcomes[1]
        IN /\ ( /\ LookupMissed(items, item_sources, last'.imp, c)
                /\ Pass1Accepted(items, c) = {} /\ Pass2Accepted(items, c) # {} )
              => (o.kind = "UPDATED" /\ o.via = "prefix" /\ o.item_id \in Pass2Accepted(items, c))
           /\ o.via = "prefix" =>
                 /\ LookupMissed(items, item_sources, last'.imp, c) /\ Pass1Accepted(items, c) = {}
                 /\ o.item_id \in Pass2Accepted(items, c) ]_vars

\* "Around the World Today!" was linked by the second pass to the manual item
\* "Around the World Today", which the full-title search does not return
C17_Witness ==
    /\ last.op = "import_from_file" /\ Len(last.parsed) = 1
    /\ last.parsed[1].title = T_AroundBang
    /\ last.outcomes[1].kind = "UPDATED" /\ last.outcomes[1].via = "prefix"
    /\ items[last.outcomes[1].item_id].title = T_Around
    /\ search_items(items, T_AroundBang, "book") = {}

\* ------------------------------------------------------------------------
\* Properties of the duplicate branch
\* ------------------------------------------------------------------------

\* the candidate was resolved by duplicate match: by a search pass or the scan
ByDuplicateMatch(o) == o.kind = "UPDATED" /\ ~o.raised /\ o.via \in {"search", "prefix", "scan"}

\* C18: after a candidate of source S with source id X was resolved by
\* duplicate match to item I, the store holds a link (I, S) whose source id is
\* X and find_item_by_source(S, X) returns I, also when I already carried a
\* link from S under another source id.
C18_DuplicateLinkCarriesSourceId ==
    [][ (ImportReturned /\ last'.parse_ok /\ Len(last'.parsed) = 1 /\ ByDuplicateMatch(last'.outcomes[1])) =>
        LET c == last'.parsed[1]
            o == last'.outcomes[1]
        IN /\ \E l \in item_sources' :
                 l.item_id = o.item_id /\ l.source = last'.imp /\ l.source_id = c.source_id
           /\ o.item_id \in find_item_by_source(items', item_sources', last'.imp, c.source_id) ]_vars

\* the links other than the one of item i from source imp
OtherLinks(links, i, imp) == { l \in links : ~(l.item_id = i /\ l.source = imp) }

NumberedSequels(t1, t2) ==
    /\ normalize_title(t1, TRUE) # normalize_title(t2, TRUE)
    /\ strip_sequel_numbers(normalize_title(t1, TRUE)) = strip_sequel_numbers(normalize_title(t2, TRUE))

C21_ScanLinkHasBothCreators ==
    [][ (ImportReturned /\ last'.parse_ok /\ Len(last'.parsed) = 1 /\ ByDuplicateMatch(last'.outcomes[1])
         /\ last'.outcomes[1].via = "scan") =>
        /\ ~Falsy(last'.parsed[1].creator)
        /\ ~Falsy(items[last'.outcomes[1].item_id].creator) ]_vars

\* ------------------------------------------------------------------------
\* Properties of the length floor and of strip_sequel_numbers
\* ------------------------------------------------------------------------

\* norm1 differs from norm2, is contained in it, is shorter than 5 characters
\* and the two differ after the sequel numbers are stripped
ShortContained(norm1, norm2) ==
    /\ norm1 # norm2
    /\ Contains(norm2, norm1)
    /\ Len(norm1) < 5
    /\ strip_sequel_numbers(norm1) # strip_sequel_numbers(norm2)

\* C22: for titles a and b whose normalized forms differ, with normalize(a)
\* contained in normalize(b), shorter than 5 characters and not equal to it
\* after sequel-number stripping, titles_match(a, b) and
\* titles_match_strict(a, b) are false.
C22_ShortSubstringRejected ==
    (fn.name = "both_tiers" /\ fn.a \in TitleArgs \ {None} /\ fn.b \in TitleArgs \ {None}
     /\ ShortContained(normalize_title(fn.a, TRUE), normalize_title(fn.b, TRUE)))
        => (~fn.out /\ ~fn.strict)

\* the roman numerals of 1 to 39, in lowercase
RomanUnits == { <<>>, <<"i">>, <<"i","i">>, <<"i","i","i">>, <<"i","v">>, <<"v">>, <<"v","i">>,
                <<"v","i","i">>, <<"v","i","i","i">>, <<"i","x">> }
RomanTens == { <<>>, <<"x">>, <<"x","x">>, <<"x","x","x">> }
RomanNumerals == { t \o u : t \in RomanTens, u \in RomanUnits } \ { <<>> }

\* a whitespace-delimited token that is a roman numeral or a decimal number
IsSequelNumber(tok) == tok \in RomanNumerals \/ (tok # <<>> /\ \A k \in 1..Len(tok) : IsDigit(tok[k]))

\* the title without its last token and the space before it
WithoutLastToken(s) == SubSeq(s, 1, Len(s) - Len(Split(s)[Len(Split(s))]) - 1)

\* C23: strip_sequel_numbers removes the last token of a title when that token
\* follows another one and is a roman numeral or a decimal number, and nothing
\* else: every other title is returned unchanged, so a title ending in a decimal
\* number and the same title ending in a roman numeral give the same string.
C23_StripsOneSequelToken ==
    fn.name = "strip_sequel_numbers" =>
        LET toks == Split(fn.a)
        IN fn.out = IF Len(toks) >= 2 /\ IsSequelNumber(toks[Len(toks)])
                    THEN WithoutLastToken(fn.a)
                    ELSE fn.a

\* ------------------------------------------------------------------------
\* Properties of the Netflix rating and of the links' identities
\* ------------------------------------------------------------------------

\* C24: for a Netflix candidate that carries a rating, the rating is written
\* under the resolved item id: the id of an item that existed when the outcome
\* is UPDATED, the id of the new item when it is ADDED; ratings are written
\* under no other id and every rating refers to an item of the store.
C24_RatingKeyedByResolvedItem ==
    [][ (ImportReturned /\ last'.parse_ok /\ last'.imp = "netflix" /\ Len(last'.parsed) = 1
         /\ last'.faults[1] = "none" /\ last'.parsed[1].source_rating # NoRating) =>
        LET c == last'.parsed[1]
            o == last'.outcomes[1]
        IN /\ ~o.raised
           /\ (o.kind = "UPDATED") <=> (o.item_id \in DOMAIN items)
           /\ (o.kind = "ADDED") <=> (o.item_id \notin DOMAIN items)
           /\ o.item_id \in DOMAIN items'
           /\ DOMAIN ratings' = DOMAIN ratings \cup {o.item_id}
           /\ ratings'[o.item_id].rating = c.source_rating
           /\ \A i \in DOMAIN ratings : i # o.item_id => ratings'[i] = ratings[i]
           /\ DOMAIN ratings' \subseteq DOMAIN items' ]_vars

\* the rated Netflix row "Dune" was resolved to an existing item: the id the
\* parser gave the candidate (the value of the clock) names no item and no
\* rating, the rating is the existing item's
C24_Witness ==
    /\ last.op = "import_from_file" /\ last.imp = "netflix" /\ Len(last.parsed) = 1
    /\ last.outcomes[1].kind = "UPDATED" /\ last.outcomes[1].via \in {"search", "prefix", "scan"}
    /\ clock \notin DOMAIN items /\ clock \notin DOMAIN ratings
    /\ last.outcomes[1].item_id # clock
    /\ last.outcomes[1].item_id \in DOMAIN ratings
    /\ ratings[last.outcomes[1].item_id].rating = last.parsed[1].source_rating

\* ------------------------------------------------------------------------
\* Properties of the Steam import paths
\* ------------------------------------------------------------------------

\* an import of Steam games returned, from a file or through the API
SteamReturned == last'.op \in {"import_from_file", "import_from_api"} /\ last'.imp = "steam" /\ last'.parse_ok

\* C25: on the file path and on the API path, a candidate whose source
\* identity is linked to an existing item is counted as UPDATED and its link is
\* on that item; an API import run again at once on the unchanged library
\* reports added = 0, updated = N and no errors.
C25_SourceIdentityUpdatesOnEveryPath ==
    [][ /\ (SteamReturned /\ Len(last'.parsed) = 1
            /\ find_item_by_source(items, item_sources, "steam", last'.parsed[1].source_id) # {})
           => LET c == last'.parsed[1]
                  o == last'.outcomes[1]
              IN /\ o.kind = "UPDATED" /\ ~o.raised
                 /\ last'.updated = 1 /\ last'.added = 0 /\ last'.errors = <<>>
                 /\ o.item_id \in find_item_by_source(items, item_sources, "steam", c.source_id)
                 /\ \E l \in item_sources' :
                       l.item_id = o.item_id /\ l.source = "steam" /\ l.source_id = c.source_id
        /\ ( /\ last.op = "import_from_api" /\ last.parse_ok /\ last.errors = <<>>
             /\ last'.op = "import_from_api" /\ last'.parse_ok /\ last'.parsed = last.parsed )
           => ( /\ last'.added = 0
                /\ last'.updated = Len(last'.parsed)
                /\ last'.errors = <<>> ) ]_vars

\* C30: when the processing of a candidate raised and was recorded in errors,
\* the candidate left no partial write: no item without a link was created and
\* no existing item's title, creator or metadata was overwritten.
C30_RaisedCandidateLeavesNoWrite ==
    [][ (last'.op \in {"import_from_file", "import_from_api"} /\ last'.parse_ok
         /\ Len(last'.parsed) = 1 /\ last'.outcomes[1].raised) =>
        /\ Len(last'.errors) = 1
        /\ \A i \in DOMAIN items' : i \in DOMAIN items \/ LinksOf(item_sources', i) # {}
        /\ \A i \in DOMAIN items : items'[i] = items[i] ]_vars

\* ------------------------------------------------------------------------
\* Properties of the wishlist pruner's frame
\* ------------------------------------------------------------------------

\* C26: prune_wishlist(C) deletes an entry only if the store search for its
\* title returns an item of the entry's category whose title matches (lenient
\* tier) and whose creator matches (default threshold); it leaves items, links
\* and ratings as they were, and with a category C it deletes no entry of
\* another category.
C26_PruneDeletesOnlyMatched ==
    [][ last'.op = "prune_wishlist" =>
        /\ wishlist_items' \subseteq wishlist_items
        /\ last'.removed = wishlist_items \ wishlist_items'
        /\ \A w \in wishlist_items \ wishlist_items' :
              /\ \E i \in search_items(items, w.title, w.category) : EntryMatches(items, w, i)
              /\ last'.cat # AnyCategory => w.category = last'.cat
        /\ items' = items /\ item_sources' = item_sources /\ ratings' = ratings ]_vars

\* after a prune over the movies, the entry "Dune" by Smith is still on the
\* wishlist although the store holds the movie "Dune" by Jones
C26_Witness ==
    /\ last.op = "prune_wishlist" /\ last.cat \in {"movie", AnyCategory}
    /\ \E w \in wishlist_items :
          /\ w.title = T_Dune /\ w.creator = T_Smith /\ w.category = "movie"
          /\ \E i \in search_items(items, w.title, w.category) :
                /\ items[i].title = T_Dune /\ items[i].creator = T_Jones
                /\ titles_match(items[i].title, w.title, TITLE_THRESHOLD)
                /\ ~creators_match(items[i].creator, w.creator, CREATOR_THRESHOLD)

\* ------------------------------------------------------------------------
\* Invariants of the store
\* ------------------------------------------------------------------------

\* C27: no two links share the same (source, source_id), so
\* find_item_by_source has at most one possible result.
C27_SourceIdentityUnique ==
    /\ \A l1, l2 \in item_sources :
          (l1.source = l2.source /\ l1.source_id = l2.source_id) => l1 = l2
    /\ \A l \in item_sources :
          Cardinality(find_item_by_source(items, item_sources, l.source, l.source_id)) = 1

\* a manual add and an imported book whose re-import was resolved by its source identity
C27_Witness ==
    /\ \E l \in item_sources : l.source = "manual"
    /\ last.op = "import_from_file"
    /\ \E k \in 1..Len(last.outcomes) :
          /\ last.outcomes[k].kind = "UPDATED" /\ last.outcomes[k].via = "source"
          /\ \E l \in item_sources : /\ l.source = "goodreads"
                                    /\ l.source_id = last.parsed[k].source_id
                                    /\ l.item_id = last.outcomes[k].item_id

\* C28: whichever way a candidate is resolved (source identity, duplicate
\* match or scan), the item its link points to has the candidate's category.
C28_LinkKeepsCategory ==
    [][ (last'.op \in {"import", "import_from_file", "import_from_api"} /\ last'.parse_ok) =>
        \A k \in 1..Len(last'.outcomes) :
            (~last'.outcomes[k].raised /\ last'.outcomes[k].kind \in {"ADDED", "UPDATED"}) =>
                /\ last'.outcomes[k].item_id \in DOMAIN items'
                /\ items'[last'.outcomes[k].item_id].category = last'.parsed[k].category ]_vars

\* C29: a batch whose parse succeeded counts every candidate exactly once:
\* added + updated + the number of errors is the number of candidates,
\* whichever step of a candidate's processing raises.
C29_EveryCandidateCountedOnce ==
    [][ (last'.op \in {"import", "import_from_file", "import_from_api"} /\ last'.parse_ok) =>
        last'.added + last'.updated + Len(last'.errors) = Len(last'.parsed) ]_vars

====
